---- MODULE Spec2Model ----
(***************************************************************************)
(* A model of the Go toolchain update pipeline of ibihim/go-scripts        *)
(* (package gotools and cmd/updatego): version comparison, release feed    *)
(* selection, checksum verification, archive extraction, installation and  *)
(* the orchestrator.                                                       *)
(*                                                                         *)
(* A Go string is modelled as a sequence of one-character strings, so that *)
(* strings.Split, strconv.Atoi, strings.HasPrefix, filepath.Join ... are   *)
(* computed character by character as the library computes them.           *)
(* An error value is modelled by its message tag; "" is the nil error.     *)
(***************************************************************************)
EXTENDS Integers, Sequences, FiniteSets, TLC

VARIABLES
    \* ---- Checker.NeedsUpdate, one call (version.go:106)
    installedParts,  \* how the installed string was built: its tokens
    latestParts,     \* how the latest string was built: its tokens
    installed,       \* argument installed (a Go string)
    latest,          \* argument latest (a Go string)
    nuPc,            \* "idle" | "done"
    nuOut,           \* the (bool, error) NeedsUpdate returned
    \* ---- three versions compared pairwise by NeedsUpdate
    ordA, ordB, ordC,
    ordPc,           \* "idle" | "done"
    ordOut,          \* [pair -> (bool, error)] for the pairs compared
    \* ---- Checker.GetLatestVersion, one call (version.go:43)
    feedErr,         \* the error of getReleasesWithRetry, Nil when it succeeded
    feed,            \* the releases it decoded, in feed order
    glvPc,           \* "idle" | "done"
    glvOut,          \* the (string, error) GetLatestVersion returned
    \* ---- Downloader.VerifyChecksum, one call (download_test.go:123)
    sumContent,      \* the bytes of the local file (a bit string)
    sumFileErr,      \* the error of opening or reading the file, or Nil
    sumFetchErr,     \* the error the polling of fetchChecksum ended with, or Nil
    sumTokenOf,      \* the content whose digest the published token is
    sumTokenCase,    \* "lower" | "upper": the letter case of the published token
    sumBody,         \* the body of the checksum response (a Go string)
    vcPc,            \* "idle" | "done"
    vcOut,           \* the (bool, error) VerifyChecksum returned
    \* ---- Installer (installer.go)
    fs,              \* the file system
    fsStart,         \* the file system when the call in progress began
    tarball,         \* the archive of the call: its entries in order
    entryIdx,        \* the entries of the archive read so far
    ctxDone,         \* whether the context of the call is done
    instPc,          \* "idle", the stage Install is at, or "done"
    instErr,         \* the error Install (or extractTarball) returned
    installs,        \* the Install calls made so far
    \* ---- app (cmd/updatego/main.go)
    appPc,           \* the stage app is at, "done" or "panic"
    appErr,          \* the error app returned, Nil for none
    appFsStart,      \* the file system when app began
    currentVersion,  \* checker.GetInstalledVersion()
    latestVersion,   \* what GetLatestVersion returned
    needsUpdate,     \* what NeedsUpdate returned
    download,        \* what Download returned, with the bytes it wrote
    verified,        \* what VerifyChecksum returned
    installerNil,    \* whether NewInstaller returned a nil Installer
    installCalls,    \* the calls of Install app made
    \* ---- wait.PollUntilContextTimeout as called by getReleasesWithRetry,
    \* ---- Download and fetchChecksum
    pollPc,          \* "idle" | "condition" | "select" | "done"
    pollWho,         \* the function polling, "none" when none is
    elapsed,         \* seconds since PollUntilContextTimeout was called
    timerAt,         \* when the interval timer fires next
    timeoutErr,      \* the error PollUntilContextTimeout returned
    lastSeenErr,     \* lastSeenErr (lastErrSeen) of the function polling
    attempts,        \* the calls of condition made
    output,          \* the file Download writes: its bytes and its offset
    received,        \* what the attempt that succeeded received
    sent,            \* what the server sent at the latest attempt
    bodies,          \* the response bodies of the function polling: how many
                     \* are open, and the Close calls on the 200 response's
    \* ---- Installer.Verify and runGoCommand (installer.go:212, 230)
    verPc,           \* "idle", the statement Verify is at, or "done"
    verErr,          \* the error Verify returned
    child,           \* the subprocess: "none" | "running" | "exited" | "killed"
    childStdout,     \* whether the subprocess holds the pipe's write end open
    childExit,       \* the exit status of the subprocess
    outputBytes,     \* outputBytes, what io.ReadAll returned
    captured,        \* output, the text captured for the caller
    waiter,          \* the goroutine of installer.go:261-263: "none", "wait"
                     \* (in cmd.Wait), "send" (at the send) or "done"
    waitCh,          \* waitCh: the errors sent and not yet received
    \* ---- safeClose called on its own (client.go:61)
    scBodies,        \* the response bodies, as in bodies
    scBefore,        \* the same before the latest call
    scArg,           \* the argument of the latest call: "nil" | "resp.Body"
    scCalls          \* the calls made

nuVars  == <<installedParts, latestParts, installed, latest, nuPc, nuOut>>
ordVars == <<ordA, ordB, ordC, ordPc, ordOut>>
glvVars == <<feedErr, feed, glvPc, glvOut>>
vcVars  == <<sumContent, sumFileErr, sumFetchErr, sumTokenOf, sumTokenCase,
             sumBody, vcPc, vcOut>>
instVars == <<fs, fsStart, tarball, entryIdx, ctxDone, instPc, instErr, installs>>
appVars == <<appPc, appErr, appFsStart, currentVersion, latestVersion, needsUpdate,
             download, verified, installerNil, installCalls>>
pollVars == <<pollPc, pollWho, elapsed, timerAt, timeoutErr, lastSeenErr, attempts,
              output, received, sent, bodies>>
waitVars == <<waiter, waitCh>>
verVars == <<verPc, verErr, child, childStdout, childExit, outputBytes, captured,
             waitVars>>
scVars  == <<scBodies, scBefore, scArg, scCalls>>
vars    == <<nuVars, ordVars, glvVars, vcVars, instVars, appVars, pollVars, verVars,
             scVars>>

\* what the steps of one component leave alone
nonNu   == <<ordVars, glvVars, vcVars, instVars, appVars, pollVars,
             verVars, scVars>>
nonOrd  == <<nuVars, glvVars, vcVars, instVars, appVars, pollVars,
             verVars, scVars>>
nonGlv  == <<nuVars, ordVars, vcVars, instVars, appVars, pollVars,
             verVars, scVars>>
nonVc   == <<nuVars, ordVars, glvVars, instVars, appVars, pollVars,
             verVars, scVars>>
nonInst == <<nuVars, ordVars, glvVars, vcVars, appVars, pollVars,
             verVars, scVars>>
nonApp  == <<nuVars, ordVars, glvVars, vcVars, instVars, pollVars,
             verVars, scVars>>
nonPoll == <<nuVars, ordVars, glvVars, vcVars, instVars, appVars,
             verVars, scVars>>
nonVer  == <<nuVars, ordVars, glvVars, vcVars, instVars, appVars, pollVars,
             scVars>>
nonSc   == <<nuVars, ordVars, glvVars, vcVars, instVars, appVars, pollVars,
             verVars>>

(***************************************************************************)
(* Go strings                                                              *)
(***************************************************************************)
Nil == ""

\* ctx.Err() of a context that is done (main.go:18: a context with a deadline)
DeadlineExceeded == "context deadline exceeded"

\* s[from..] of a string, 1-based, empty when from is past the end
Tail_(s, from) == SubSeq(s, from, Len(s))

\* strings.HasPrefix(s, prefix)
HasPrefix(s, prefix) ==
    /\ Len(s) >= Len(prefix)
    /\ SubSeq(s, 1, Len(prefix)) = prefix

\* strings.TrimPrefix(s, prefix)
TrimPrefix(s, prefix) ==
    IF HasPrefix(s, prefix) THEN Tail_(s, Len(prefix) + 1) ELSE s

\* strings.Split(s, sep) for a one-character separator: always at least one
\* field, empty fields kept
RECURSIVE SplitAcc(_, _, _, _, _)
SplitAcc(s, sep, i, cur, acc) ==
    IF i > Len(s) THEN Append(acc, cur)
    ELSE IF s[i] = sep THEN SplitAcc(s, sep, i + 1, <<>>, Append(acc, cur))
    ELSE SplitAcc(s, sep, i + 1, Append(cur, s[i]), acc)

Split(s, sep) == SplitAcc(s, sep, 1, <<>>, <<>>)

\* strings.Join(parts, sep)
RECURSIVE JoinStr(_, _)
JoinStr(parts, sep) ==
    IF Len(parts) = 0 THEN <<>>
    ELSE IF Len(parts) = 1 THEN parts[1]
    ELSE parts[1] \o <<sep>> \o JoinStr(Tail(parts), sep)

(***************************************************************************)
(* strconv.Atoi on a 64-bit platform (the archive name is fixed to         *)
(* linux-amd64): an optional sign, then decimal digits only; the empty     *)
(* string and a lone sign are syntax errors, a value outside the int64     *)
(* range is a range error.                                                 *)
(***************************************************************************)
DigitChars == <<"0", "1", "2", "3", "4", "5", "6", "7", "8", "9">>

IsDigit(c) == \E i \in 1..10 : DigitChars[i] = c

DigitVal(c) == (CHOOSE i \in 1..10 : DigitChars[i] = c) - 1

AllDigits(s) == \A i \in 1..Len(s) : IsDigit(s[i])

RECURSIVE StripZeros(_)
StripZeros(s) ==
    IF Len(s) > 1 /\ s[1] = "0" THEN StripZeros(Tail(s)) ELSE s

\* a < b for two digit strings of the same length
RECURSIVE DigitsLess(_, _)
DigitsLess(a, b) ==
    IF Len(a) = 0 THEN FALSE
    ELSE IF a[1] # b[1] THEN DigitVal(a[1]) < DigitVal(b[1])
    ELSE DigitsLess(Tail(a), Tail(b))

\* the magnitude of math.MaxInt64, 9223372036854775807
MaxInt64Digits ==
    <<"9","2","2","3","3","7","2","0","3","6","8","5","4","7","7","5","8","0","7">>

\* the magnitude of math.MinInt64, 9223372036854775808
MinInt64Digits ==
    <<"9","2","2","3","3","7","2","0","3","6","8","5","4","7","7","5","8","0","8">>

\* whether the magnitude digits (no leading zeros) exceed the limit
ExceedsLimit(digits, limit) ==
    \/ Len(digits) > Len(limit)
    \/ Len(digits) = Len(limit) /\ DigitsLess(limit, digits)

RECURSIVE DigitsValue(_, _)
DigitsValue(s, acc) ==
    IF Len(s) = 0 THEN acc ELSE DigitsValue(Tail(s), acc * 10 + DigitVal(s[1]))

Atoi(s) ==
    LET neg    == Len(s) > 0 /\ s[1] = "-"
        signed == Len(s) > 0 /\ (s[1] = "-" \/ s[1] = "+")
        body   == IF signed THEN Tail(s) ELSE s
        mag    == StripZeros(body)
    IN  IF Len(body) = 0 \/ ~AllDigits(body)
        THEN [err |-> "syntax", val |-> 0]
        ELSE IF ExceedsLimit(mag, IF neg THEN MinInt64Digits ELSE MaxInt64Digits)
        THEN [err |-> "range", val |-> 0]
        ELSE [err |-> Nil,
              val |-> IF neg THEN 0 - DigitsValue(mag, 0) ELSE DigitsValue(mag, 0)]

(***************************************************************************)
(* Checker.NeedsUpdate                                                     *)
(***************************************************************************)
Verdict(b) == [res |-> b, err |-> Nil]
Failure(e) == [res |-> FALSE, err |-> e]

\* the mutants of NeedsUpdate used to test the claims' formulas
NeedsUpdate_MinorFirst(inst, lat) ==
    IF inst = <<>> THEN Verdict(TRUE)
    ELSE
    LET installedSplit == Split(inst, ".")
        latestSplit    == Split(lat, ".")
    IN  IF Len(installedSplit) < 3 \/ Len(latestSplit) < 3
        THEN Failure("invalid version format")
        ELSE
        LET majorInstalled == Atoi(installedSplit[1])
            majorLatest    == Atoi(latestSplit[1])
            minorInstalled == Atoi(installedSplit[2])
            minorLatest    == Atoi(latestSplit[2])
            patch1         == Atoi(installedSplit[3])
            patch2         == Atoi(latestSplit[3])
        IN  IF minorInstalled.err # Nil THEN Failure("invalid minor version")
            ELSE IF minorLatest.err # Nil THEN Failure("invalid minor version")
            ELSE IF minorInstalled.val < minorLatest.val THEN Verdict(TRUE)
            ELSE IF minorInstalled.val > minorLatest.val THEN Verdict(FALSE)
            ELSE IF majorInstalled.err # Nil THEN Failure("invalid major version")
            ELSE IF majorLatest.err # Nil THEN Failure("invalid major version")
            ELSE IF majorInstalled.val < majorLatest.val THEN Verdict(TRUE)
            ELSE IF majorInstalled.val > majorLatest.val THEN Verdict(FALSE)
            ELSE IF patch1.err # Nil THEN Failure("invalid patch version")
            ELSE IF patch2.err # Nil THEN Failure("invalid patch version")
            ELSE IF patch1.val < patch2.val THEN Verdict(TRUE)
            ELSE Verdict(FALSE)

NeedsUpdate_ParseBeforeEmptyCheck(inst, lat) ==
    LET latestSplit == Split(lat, ".")
    IN  IF Len(latestSplit) < 3 THEN Failure("invalid version format")
        ELSE IF \E k \in 1..3 : Atoi(latestSplit[k]).err # Nil
        THEN Failure("invalid version")
        ELSE IF inst = <<>> THEN Verdict(TRUE)
        ELSE Verdict(FALSE)

NeedsUpdate_PatchLessOrEqual(inst, lat) ==
    IF inst = <<>> THEN Verdict(TRUE)
    ELSE
    LET installedSplit == Split(inst, ".")
        latestSplit    == Split(lat, ".")
    IN  IF Len(installedSplit) < 3 \/ Len(latestSplit) < 3
        THEN Failure("invalid version format")
        ELSE
        LET majorInstalled == Atoi(installedSplit[1])
            majorLatest    == Atoi(latestSplit[1])
            minorInstalled == Atoi(installedSplit[2])
            minorLatest    == Atoi(latestSplit[2])
            patch1         == Atoi(installedSplit[3])
            patch2         == Atoi(latestSplit[3])
        IN  IF majorInstalled.err # Nil THEN Failure("invalid major version")
            ELSE IF majorLatest.err # Nil THEN Failure("invalid major version")
            ELSE IF majorInstalled.val < majorLatest.val THEN Verdict(TRUE)
            ELSE IF majorInstalled.val > majorLatest.val THEN Verdict(FALSE)
            ELSE IF minorInstalled.err # Nil THEN Failure("invalid minor version")
            ELSE IF minorLatest.err # Nil THEN Failure("invalid minor version")
            ELSE IF minorInstalled.val < minorLatest.val THEN Verdict(TRUE)
            ELSE IF minorInstalled.val > minorLatest.val THEN Verdict(FALSE)
            ELSE IF patch1.err # Nil THEN Failure("invalid patch version")
            ELSE IF patch2.err # Nil THEN Failure("invalid patch version")
            ELSE IF patch1.val <= patch2.val THEN Verdict(TRUE)
            ELSE Verdict(FALSE)

\* version.go:106-174.  Each component is parsed only when the code reaches
\* it: the minor components are not parsed when the majors differ, the patch
\* components not when the minors differ.
NeedsUpdate(inst, lat) ==
    IF inst = <<>> THEN Verdict(TRUE)
    ELSE
    LET installedSplit == Split(inst, ".")
        latestSplit    == Split(lat, ".")
    IN  IF Len(installedSplit) < 3 \/ Len(latestSplit) < 3
        THEN Failure("invalid version format")
        ELSE
        LET majorInstalled == Atoi(installedSplit[1])
            majorLatest    == Atoi(latestSplit[1])
            minorInstalled == Atoi(installedSplit[2])
            minorLatest    == Atoi(latestSplit[2])
            patch1         == Atoi(installedSplit[3])
            patch2         == Atoi(latestSplit[3])
        IN  IF majorInstalled.err # Nil THEN Failure("invalid major version")
            ELSE IF majorLatest.err # Nil THEN Failure("invalid major version")
            ELSE IF majorInstalled.val < majorLatest.val THEN Verdict(TRUE)
            ELSE IF majorInstalled.val > majorLatest.val THEN Verdict(FALSE)
            ELSE IF minorInstalled.err # Nil THEN Failure("invalid minor version")
            ELSE IF minorLatest.err # Nil THEN Failure("invalid minor version")
            ELSE IF minorInstalled.val < minorLatest.val THEN Verdict(TRUE)
            ELSE IF minorInstalled.val > minorLatest.val THEN Verdict(FALSE)
            ELSE IF patch1.err # Nil THEN Failure("invalid patch version")
            ELSE IF patch2.err # Nil THEN Failure("invalid patch version")
            ELSE IF patch1.val < patch2.val THEN Verdict(TRUE)
            ELSE IF patch1.val > patch2.val THEN Verdict(FALSE)
            ELSE Verdict(FALSE)

(***************************************************************************)
(* The version strings the calls are made with.  A string is built by      *)
(* joining tokens with "."; a token is known by what it denotes.           *)
(***************************************************************************)
\* the most components a version string is built from
MaxParts == 4

Tokens == {"0", "2", "10", "a", "-2", "2^63"}

TokenChars(t) ==
    CASE t = "0"    -> <<"0">>
      [] t = "2"    -> <<"2">>
      [] t = "10"   -> <<"1", "0">>
      [] t = "a"    -> <<"a">>
      [] t = "-2"   -> <<"-", "2">>
      [] t = "2^63" -> MinInt64Digits

\* what a token denotes: a non-negative integer (natural), a negative
\* integer, or no integer at all
TokenKind(t) ==
    CASE t \in {"0", "2", "10", "2^63"} -> "natural"
      [] t = "-2"                       -> "negative"
      [] t = "a"                        -> "junk"

\* the number a natural token that fits an int denotes
TokenValue(t) ==
    CASE t = "0" -> 0 [] t = "2" -> 2 [] t = "10" -> 10

FitsInt(t) == t \in {"0", "2", "10"}

ShortTokens == {"0", "2"}

\* token sequences: every three-component one, the two-component and the
\* longer ones over the short tokens, and the empty string
VersionParts ==
    {<<>>} \cup [1..3 -> Tokens]
           \cup UNION {[1..n -> ShortTokens] : n \in (2..MaxParts) \ {3}}

RECURSIVE PartsChars(_)
PartsChars(parts) ==
    IF Len(parts) = 0 THEN <<>>
    ELSE <<TokenChars(parts[1])>> \o PartsChars(Tail(parts))

VersionString(parts) == JoinStr(PartsChars(parts), ".")

NoResult == [res |-> FALSE, err |-> "not called"]

NuIdle ==
    /\ installedParts = <<>>
    /\ latestParts = <<>>
    /\ installed = <<>>
    /\ latest = <<>>
    /\ nuPc = "idle"
    /\ nuOut = NoResult

\* one call NeedsUpdate(installed, latest)
CallNeedsUpdate ==
    /\ nuPc = "idle"
    /\ \E ip \in VersionParts, lp \in VersionParts :
          /\ installedParts' = ip
          /\ latestParts' = lp
          /\ installed' = VersionString(ip)
          /\ latest' = VersionString(lp)
          /\ nuOut' = NeedsUpdate(VersionString(ip), VersionString(lp))
    /\ nuPc' = "done"
    /\ UNCHANGED nonNu

(***************************************************************************)
(* Three valid versions compared pairwise                                  *)
(***************************************************************************)
ValidTokens == {t \in Tokens : FitsInt(t)}

ValidVersions == [1..3 -> ValidTokens]

Pairs == {"aa", "ab", "ba", "bc", "cb", "ac", "ca"}

OrdIdle ==
    /\ ordA = <<>>
    /\ ordB = <<>>
    /\ ordC = <<>>
    /\ ordPc = "idle"
    /\ ordOut = [p \in Pairs |-> NoResult]

ComparePairwise ==
    /\ ordPc = "idle"
    /\ \E a \in ValidVersions, b \in ValidVersions, c \in ValidVersions :
          LET sa == VersionString(a)
              sb == VersionString(b)
              sc == VersionString(c)
          IN  /\ ordA' = a
              /\ ordB' = b
              /\ ordC' = c
              /\ ordOut' = [p \in Pairs |->
                    CASE p = "aa" -> NeedsUpdate(sa, sa)
                      [] p = "ab" -> NeedsUpdate(sa, sb)
                      [] p = "ba" -> NeedsUpdate(sb, sa)
                      [] p = "bc" -> NeedsUpdate(sb, sc)
                      [] p = "cb" -> NeedsUpdate(sc, sb)
                      [] p = "ac" -> NeedsUpdate(sa, sc)
                      [] p = "ca" -> NeedsUpdate(sc, sa)]
    /\ ordPc' = "done"
    /\ UNCHANGED nonOrd

(***************************************************************************)
(* Checker.GetLatestVersion                                                *)
(***************************************************************************)
\* the most entries a feed holds
MaxFeed == 3

GoPrefix == <<"g", "o">>

\* the identifiers a feed entry carries: go2, go10, 2 (no prefix) and go
\* (nothing but the prefix)
ReleaseVersions ==
    {<<"g", "o", "2">>, <<"g", "o", "1", "0">>, <<"2">>, <<"g", "o">>}

GoRelease == [Version : ReleaseVersions, Stable : BOOLEAN]

Feeds == UNION {[1..n -> GoRelease] : n \in 0..MaxFeed}

Found(v)    == [version |-> v, err |-> Nil]
NotFound(e) == [version |-> <<>>, err |-> e]

\* mutant: the last stable release of the feed instead of the first
RECURSIVE FirstStableFrom_Last(_, _)
FirstStableFrom_Last(releases, i) ==
    IF i < 1 \/ i > Len(releases) THEN NotFound("no stable Go releases found")
    ELSE LET k == Len(releases) + 1 - i
         IN  IF releases[k].Stable /\ HasPrefix(releases[k].Version, GoPrefix)
             THEN Found(TrimPrefix(releases[k].Version, GoPrefix))
             ELSE FirstStableFrom_Last(releases, i + 1)

\* version.go:55-61: the loop over the releases, from index i on
RECURSIVE FirstStableFrom(_, _)
FirstStableFrom(releases, i) ==
    IF i > Len(releases) THEN NotFound("no stable Go releases found")
    ELSE IF releases[i].Stable /\ HasPrefix(releases[i].Version, GoPrefix)
         THEN Found(TrimPrefix(releases[i].Version, GoPrefix))
         ELSE FirstStableFrom(releases, i + 1)

\* version.go:43-62, given what getReleasesWithRetry returned.  The request
\* is built from a fixed URL and method, so building it does not fail.
GetLatestVersion(releasesErr, releases) ==
    IF releasesErr # Nil THEN NotFound("failed to fetch releases")
    ELSE FirstStableFrom(releases, 1)

\* what getReleasesWithRetry ends with (version.go:89-102): the releases, or
\* an error of the polling or of the JSON decoding
ReleasesErrors ==
    {Nil, "failed to fetch version info", "failed to parse version info"}

GlvIdle ==
    /\ feedErr = Nil
    /\ feed = <<>>
    /\ glvPc = "idle"
    /\ glvOut = NotFound("not called")

CallGetLatestVersion ==
    /\ glvPc = "idle"
    /\ \E e \in ReleasesErrors, f \in Feeds :
          /\ feedErr' = e
          /\ feed' = IF e = Nil THEN f ELSE <<>>
          /\ glvOut' = GetLatestVersion(e, IF e = Nil THEN f ELSE <<>>)
    /\ glvPc' = "done"
    /\ UNCHANGED nonGlv

(***************************************************************************)
(* Downloader.VerifyChecksum, fetchChecksum, calculateChecksum             *)
(***************************************************************************)
\* the length of the local file, in bits
FileBits == 2

FileContents == [1..FileBits -> {0, 1}]

\* crypto/sha256 is not computed: it is taken as a fixed function without
\* collisions on the contents of the model, one digest byte per bit of the
\* content, each byte with letters in its hex form (0xaa, 0xab, 0xbb ...).
Sha256Sum(content) ==
    [i \in 1..Len(content) |-> 170 + 17 * (i - 1) + content[i]]

HexTable == <<"0", "1", "2", "3", "4", "5", "6", "7", "8", "9",
              "a", "b", "c", "d", "e", "f">>

UpperHexTable == <<"0", "1", "2", "3", "4", "5", "6", "7", "8", "9",
                   "A", "B", "C", "D", "E", "F">>

RECURSIVE EncodeWith(_, _)
EncodeWith(table, bytes) ==
    IF Len(bytes) = 0 THEN <<>>
    ELSE <<table[(bytes[1] \div 16) + 1], table[(bytes[1] % 16) + 1]>>
         \o EncodeWith(table, Tail(bytes))

\* hex.EncodeToString: two lowercase hex digits per byte
EncodeToString(bytes) == EncodeWith(HexTable, bytes)

\* unicode.IsSpace on the characters of the model
IsSpace(c) == c \in {" ", "\t", "\n", "\r"}

\* strings.Fields(s): the maximal runs of non-space characters
RECURSIVE FieldsAcc(_, _, _, _)
FieldsAcc(s, i, cur, acc) ==
    IF i > Len(s) THEN (IF cur = <<>> THEN acc ELSE Append(acc, cur))
    ELSE IF IsSpace(s[i])
         THEN FieldsAcc(s, i + 1, <<>>, IF cur = <<>> THEN acc ELSE Append(acc, cur))
         ELSE FieldsAcc(s, i + 1, Append(cur, s[i]), acc)

Fields(s) == FieldsAcc(s, 1, <<>>, <<>>)

\* strings.TrimSpace(s)
RECURSIVE TrimLeft(_)
TrimLeft(s) == IF Len(s) > 0 /\ IsSpace(s[1]) THEN TrimLeft(Tail(s)) ELSE s

RECURSIVE TrimRight(_)
TrimRight(s) ==
    IF Len(s) > 0 /\ IsSpace(s[Len(s)])
    THEN TrimRight(SubSeq(s, 1, Len(s) - 1)) ELSE s

TrimSpace(s) == TrimRight(TrimLeft(s))

\* mutant: the whole trimmed body is taken as the digest
fetchChecksum_TrimmedBody(pollErr, checksumBytes) ==
    IF pollErr # Nil THEN [sum |-> <<>>, err |-> "failed to fetch checksum"]
    ELSE [sum |-> TrimSpace(checksumBytes), err |-> Nil]

\* download_test.go:140-192, given what the polling ended with: the error
\* it returned (Nil when an attempt succeeded) and the body read
fetchChecksum(pollErr, checksumBytes) ==
    IF pollErr # Nil THEN [sum |-> <<>>, err |-> "failed to fetch checksum"]
    ELSE LET parts == Fields(checksumBytes)
         IN  IF Len(parts) > 0 THEN [sum |-> parts[1], err |-> Nil]
             ELSE [sum |-> TrimSpace(checksumBytes), err |-> Nil]

\* download_test.go:195-208
calculateChecksum(fileErr, content) ==
    IF fileErr # Nil THEN [sum |-> <<>>, err |-> fileErr]
    ELSE [sum |-> EncodeToString(Sha256Sum(content)), err |-> Nil]

ToLowerChar(c) ==
    IF \E i \in 1..16 : UpperHexTable[i] = c
    THEN HexTable[CHOOSE i \in 1..16 : UpperHexTable[i] = c] ELSE c

ToLower(s) == [i \in 1..Len(s) |-> ToLowerChar(s[i])]

\* mutant: the digests compared without regard to letter case
VerifyChecksum_EqualFold(fetchErr, body, fileErr, content) ==
    LET expectedSum == fetchChecksum(fetchErr, body)
        actualSum   == calculateChecksum(fileErr, content)
    IN  IF expectedSum.err # Nil THEN Failure("failed to fetch checksum")
        ELSE IF actualSum.err # Nil THEN Failure("failed to calculate checksum")
        ELSE Verdict(ToLower(expectedSum.sum) = ToLower(actualSum.sum))

\* download_test.go:123-137
VerifyChecksum(fetchErr, body, fileErr, content) ==
    LET expectedSum == fetchChecksum(fetchErr, body)
        actualSum   == calculateChecksum(fileErr, content)
    IN  IF expectedSum.err # Nil THEN Failure("failed to fetch checksum")
        ELSE IF actualSum.err # Nil THEN Failure("failed to calculate checksum")
        ELSE Verdict(expectedSum.sum = actualSum.sum)

\* the token the checksum server publishes: the digest of some content, in
\* lowercase or in uppercase hex
PublishedToken(of, case) ==
    EncodeWith(IF case = "lower" THEN HexTable ELSE UpperHexTable, Sha256Sum(of))

\* the layouts of the checksum body: the token alone, "<hash>  <filename>",
\* the token with a trailing newline, and with leading and trailing space
Layouts == {"bare", "hash  filename", "newline", "padded"}

FileName == <<"g", "o", ".", "t", "g", "z">>

ChecksumBody(token, layout) ==
    CASE layout = "bare"           -> token
      [] layout = "hash  filename" -> token \o <<" ", " ">> \o FileName \o <<"\n">>
      [] layout = "newline"        -> token \o <<"\n">>
      [] layout = "padded"         -> <<" ", "\t">> \o token \o <<" ", "\n">>

FetchErrors == {Nil, "timed out waiting for the condition", "unexpected status code"}

FileErrors == {Nil, "failed to open file for checksum calculation",
               "failed to read file for checksum calculation"}

VcIdle ==
    /\ sumContent = <<>>
    /\ sumFileErr = Nil
    /\ sumFetchErr = Nil
    /\ sumTokenOf = <<>>
    /\ sumTokenCase = "lower"
    /\ sumBody = <<>>
    /\ vcPc = "idle"
    /\ vcOut = NoResult

CallVerifyChecksum ==
    /\ vcPc = "idle"
    /\ \E c \in FileContents, of \in FileContents, case \in {"lower", "upper"},
          layout \in Layouts, fe \in FetchErrors, re \in FileErrors :
          LET body == IF fe = Nil THEN ChecksumBody(PublishedToken(of, case), layout)
                      ELSE <<>>
          IN  /\ sumContent' = c
              /\ sumTokenOf' = of
              /\ sumTokenCase' = case
              /\ sumFetchErr' = fe
              /\ sumFileErr' = re
              /\ sumBody' = body
              /\ vcOut' = VerifyChecksum(fe, body, re, c)
    /\ vcPc' = "done"
    /\ UNCHANGED nonVc

(***************************************************************************)
(* Paths: path/filepath on a Unix system                                   *)
(***************************************************************************)
Dot    == <<".">>
DotDot == <<".", ".">>

IsAbs(path) == Len(path) > 0 /\ path[1] = "/"

\* the components of a path: what lies between its separators
Segments(path) == SelectSeq(Split(path, "/"), LAMBDA x : x # <<>>)

Front(s) == SubSeq(s, 1, Len(s) - 1)

\* filepath.Clean, component by component: "." dropped, ".." dropping the
\* component before it, ".." at the root dropped, a leading ".." of a
\* relative path kept
RECURSIVE CleanSegs(_, _, _)
CleanSegs(segs, out, rooted) ==
    IF segs = <<>> THEN out
    ELSE IF Head(segs) = Dot THEN CleanSegs(Tail(segs), out, rooted)
    ELSE IF Head(segs) = DotDot
         THEN IF Len(out) > 0 /\ out[Len(out)] # DotDot
              THEN CleanSegs(Tail(segs), Front(out), rooted)
              ELSE IF rooted THEN CleanSegs(Tail(segs), out, rooted)
              ELSE CleanSegs(Tail(segs), Append(out, DotDot), rooted)
    ELSE CleanSegs(Tail(segs), Append(out, Head(segs)), rooted)

Clean(path) ==
    LET body == JoinStr(CleanSegs(Segments(path), <<>>, IsAbs(path)), "/")
    IN  IF IsAbs(path) THEN <<"/">> \o body
        ELSE IF body = <<>> THEN Dot ELSE body

\* filepath.Join: the non-empty elements joined by "/", then cleaned
Join(elems) ==
    LET given == SelectSeq(elems, LAMBDA x : x # <<>>)
    IN  IF given = <<>> THEN <<>> ELSE Clean(JoinStr(given, "/"))

RECURSIVE LastSep(_, _)
LastSep(path, i) ==
    IF i = 0 THEN 0 ELSE IF path[i] = "/" THEN i ELSE LastSep(path, i - 1)

\* filepath.Dir: the path up to its last separator, cleaned
Dir(path) == Clean(SubSeq(path, 1, LastSep(path, Len(path))))

(***************************************************************************)
(* The file system.  fs maps the physical path of every object (a sequence *)
(* of names from the root, no symbolic link among them but for the last)   *)
(* to the object: a directory, a regular file with its data, or a symbolic *)
(* link with its target string.  The operating system resolves a path name *)
(* by name, following the symbolic links it meets.                         *)
(***************************************************************************)
\* the most symbolic links one path resolution follows (ELOOP beyond)
MaxLinks == 3

DirNode(mode)        == [kind |-> "dir",  data |-> <<>>, mode |-> mode]
FileNode(data, mode) == [kind |-> "file", data |-> data, mode |-> mode]
LinkNode(target)     == [kind |-> "link", data |-> target, mode |-> "0777"]

\* The walk of one path name: cur is the directory reached, rest the
\* names still to resolve.  Answers err = Nil and the object's physical path;
\* or "ENOENT" with the physical path the missing last name would get in an
\* existing directory (creatable); or the error of the walk.
RECURSIVE Walk(_, _, _, _, _)
Walk(f, cur, rest, followLast, fuel) ==
    IF rest = <<>> THEN [err |-> Nil, at |-> cur, creatable |-> FALSE]
    ELSE
    LET name == Head(rest)
        more == Tail(rest)
        p    == Append(cur, name)
    IN  IF name = Dot THEN Walk(f, cur, more, followLast, fuel)
        ELSE IF name = DotDot
        THEN Walk(f, IF cur = <<>> THEN cur ELSE Front(cur), more, followLast, fuel)
        ELSE IF p \notin DOMAIN f
        THEN [err |-> "ENOENT", at |-> p, creatable |-> more = <<>>]
        ELSE IF f[p].kind = "link" /\ (more # <<>> \/ followLast)
        THEN IF fuel = 0
             THEN [err |-> "ELOOP", at |-> p, creatable |-> FALSE]
             ELSE Walk(f, IF IsAbs(f[p].data) THEN <<>> ELSE cur,
                       Segments(f[p].data) \o more, followLast, fuel - 1)
        ELSE IF more # <<>> /\ f[p].kind # "dir"
        THEN [err |-> "ENOTDIR", at |-> p, creatable |-> FALSE]
        ELSE Walk(f, p, more, followLast, fuel)

\* os.Stat follows a symbolic link given as the last name, os.Lstat does not
Stat(f, path)  == Walk(f, <<>>, Segments(path), TRUE, MaxLinks)
Lstat(f, path) == Walk(f, <<>>, Segments(path), FALSE, MaxLinks)

\* os.IsNotExist(err)
IsNotExist(err) == err = "ENOENT"

Put(f, p, node) == [q \in DOMAIN f \cup {p} |-> IF q = p THEN node ELSE f[q]]

IsUnder(p, top) == Len(p) >= Len(top) /\ SubSeq(p, 1, Len(top)) = top

\* os.Mkdir: the last name must not exist, not even as a dangling link
Mkdir(f, path, mode) ==
    LET r == Lstat(f, path)
    IN  IF r.err = Nil THEN [fs |-> f, err |-> "EEXIST"]
        ELSE IF r.creatable THEN [fs |-> Put(f, r.at, DirNode(mode)), err |-> Nil]
        ELSE [fs |-> f, err |-> r.err]

\* os.MkdirAll: nothing to do when the path is a directory (through links
\* too); otherwise the parent first, then the directory itself
RECURSIVE MkdirAll(_, _, _)
MkdirAll(f, path, mode) ==
    LET st == Stat(f, path)
    IN  IF st.err = Nil
        THEN [fs |-> f, err |-> IF f[st.at].kind = "dir" THEN Nil ELSE "ENOTDIR"]
        ELSE
        LET parent == IF LastSep(path, Len(path)) > 1
                      THEN MkdirAll(f, SubSeq(path, 1, LastSep(path, Len(path)) - 1), mode)
                      ELSE [fs |-> f, err |-> Nil]
        IN  IF parent.err # Nil THEN parent
            ELSE LET made == Mkdir(parent.fs, path, mode)
                     again == Lstat(parent.fs, path)
                 IN  IF made.err # Nil /\ again.err = Nil
                        /\ parent.fs[again.at].kind = "dir"
                     THEN [fs |-> parent.fs, err |-> Nil]
                     ELSE made

\* os.OpenFile(path, O_CREATE|O_TRUNC|O_WRONLY, mode), the data copied into
\* it, and Close: an existing file (reached through links too) is emptied
\* and keeps its mode, a missing one is created with the mode given
WriteFile(f, path, data, mode) ==
    LET r == Stat(f, path)
    IN  IF r.err = Nil
        THEN IF f[r.at].kind = "dir" THEN [fs |-> f, err |-> "EISDIR"]
             ELSE [fs |-> Put(f, r.at, FileNode(data, f[r.at].mode)), err |-> Nil]
        ELSE IF r.creatable
        THEN [fs |-> Put(f, r.at, FileNode(data, mode)), err |-> Nil]
        ELSE [fs |-> f, err |-> r.err]

\* os.Symlink(target, path): the target string is stored as given
Symlink(f, target, path) ==
    LET r == Lstat(f, path)
    IN  IF r.err = Nil THEN [fs |-> f, err |-> "EEXIST"]
        ELSE IF r.creatable THEN [fs |-> Put(f, r.at, LinkNode(target)), err |-> Nil]
        ELSE [fs |-> f, err |-> r.err]

\* os.RemoveAll: the object and all beneath it, no link followed; a path
\* that does not exist is no error
RemoveAll(f, path) ==
    LET r == Lstat(f, path)
    IN  IF r.err # Nil THEN [fs |-> f, err |-> Nil]
        ELSE [fs |-> [q \in {x \in DOMAIN f : ~IsUnder(x, r.at)} |-> f[q]],
              err |-> Nil]

\* os.Remove: one file, link or empty directory
Remove(f, path) ==
    LET r == Lstat(f, path)
    IN  IF r.err # Nil THEN [fs |-> f, err |-> r.err]
        ELSE IF \E q \in DOMAIN f : q # r.at /\ IsUnder(q, r.at)
        THEN [fs |-> f, err |-> "ENOTEMPTY"]
        ELSE [fs |-> [q \in DOMAIN f \ {r.at} |-> f[q]], err |-> Nil]

(***************************************************************************)
(* The Installer: NewInstaller's layout, Install and its four stages       *)
(***************************************************************************)
\* usr.HomeDir of the current user
HomeDir == <<"/", "h">>

\* installer.go:42-43
InstallDir == Join(<<HomeDir, <<".", "l", "o", "c", "a", "l">>, <<"l", "i", "b">>>>)
BinDir     == Join(<<HomeDir, <<".", "l", "o", "c", "a", "l">>, <<"b", "i", "n">>>>)

\* installer.go:88, 96, 103
GoDir     == Join(<<InstallDir, <<"g", "o">>>>)
GoLink    == Join(<<BinDir, <<"g", "o">>>>)
GoFmtLink == Join(<<BinDir, <<"g", "o", "f", "m", "t">>>>)

\* mutant: the source of the go link computed without the "go" directory
GoSrc_NoGoDir == Join(<<InstallDir, <<"b", "i", "n">>, <<"g", "o">>>>)

\* installer.go:196, 202
GoSrc    == Join(<<InstallDir, <<"g", "o">>, <<"b", "i", "n">>, <<"g", "o">>>>)

\* mutant: the gofmt link is given the source of the go link
GoFmtSrc_GoSrc == GoSrc

GoFmtSrc == Join(<<InstallDir, <<"g", "o">>, <<"b", "i", "n">>, <<"g", "o", "f", "m", "t">>>>)

NoError == [stage |-> Nil, cause |-> Nil]
InstallError(stage, cause) == [stage |-> stage, cause |-> cause]

\* one tar header with the data that follows it
Header(name, typeflag, mode, linkname, data) ==
    [Name |-> name, Typeflag |-> typeflag, Mode |-> mode,
     Linkname |-> linkname, Data |-> data]

\* installer.go:149: the containment test, a prefix test on the strings
InsideInstallDir(target) == HasPrefix(target, InstallDir)

\* installer.go:166-175
WriteEntry(f, target, header) == WriteFile(f, target, header.Data, header.Mode)

\* installer.go:143-188: one entry of the archive
ExtractEntry(f, header) ==
    LET target == Join(<<InstallDir, header.Name>>)
    IN  IF ~InsideInstallDir(target)
        THEN [fs |-> f, err |-> "path traversal attempt"]
        ELSE IF header.Typeflag = "dir"
        THEN LET made == MkdirAll(f, target, header.Mode)
             IN  [fs |-> made.fs,
                  err |-> IF made.err = Nil THEN Nil ELSE "failed to create directory"]
        ELSE IF header.Typeflag = "reg"
        THEN LET parent == MkdirAll(f, Dir(target), "0755")
                 file   == WriteEntry(parent.fs, target, header)
             IN  IF parent.err # Nil
                 THEN [fs |-> parent.fs, err |-> "failed to create parent directory"]
                 ELSE [fs |-> file.fs,
                       err |-> IF file.err = Nil THEN Nil ELSE "failed to create file"]
        ELSE IF header.Typeflag = "symlink"
        THEN LET parent == MkdirAll(f, Dir(target), "0755")
                 link   == Symlink(parent.fs, header.Linkname, target)
             IN  IF parent.err # Nil
                 THEN [fs |-> parent.fs, err |-> "failed to create parent directory"]
                 ELSE [fs |-> link.fs,
                       err |-> IF link.err = Nil THEN Nil ELSE "failed to create symlink"]
        ELSE [fs |-> f, err |-> Nil]

InstallStages ==
    {"ensureDirectories", "removeExisting", "removeGoLink", "removeGoFmtLink",
     "extractTarball", "createGoSymlink", "createGoFmtSymlink"}

Return(err) ==
    /\ instPc' = "done"
    /\ instErr' = err

\* mutant: Install goes from ensureDirectories straight to extractTarball
Goto_SkipRemoveExisting(stage) ==
    /\ instPc' = IF stage = "removeExisting" THEN "extractTarball" ELSE stage
    /\ instErr' = instErr

Goto(stage) ==
    /\ instPc' = stage
    /\ instErr' = instErr

\* installer.go:74-84; either MkdirAll may fail (no permission), and then
\* nothing more is made
EnsureDirectories ==
    /\ instPc = "ensureDirectories"
    /\ LET lib == MkdirAll(fs, InstallDir, "0755")
           bin == MkdirAll(lib.fs, BinDir, "0755")
       IN  \/ /\ fs' = fs
              /\ Return(InstallError("failed to create installation directories",
                                     "MkdirAll"))
           \/ /\ fs' = lib.fs
              /\ Return(InstallError("failed to create installation directories",
                                     "MkdirAll"))
           \/ /\ lib.err = Nil /\ bin.err = Nil
              /\ fs' = bin.fs
              /\ Goto("removeExisting")
    /\ UNCHANGED <<fsStart, tarball, entryIdx, ctxDone, installs, nonInst>>

\* installer.go:88-94: nothing at all is removed when the go directory does
\* not exist.  A RemoveAll that fails leaves the tree whole or without one
\* of its subtrees.
RemoveExistingDir ==
    /\ instPc = "removeExisting"
    /\ \/ /\ IsNotExist(Stat(fs, GoDir).err)
          /\ fs' = fs
          /\ Goto("extractTarball")
       \/ /\ ~IsNotExist(Stat(fs, GoDir).err)
          /\ fs' = RemoveAll(fs, GoDir).fs
          /\ Goto("removeGoLink")
       \/ /\ ~IsNotExist(Stat(fs, GoDir).err)
          /\ Lstat(fs, GoDir).err = Nil
          /\ \E q \in DOMAIN fs :
                /\ IsUnder(q, Lstat(fs, GoDir).at)
                /\ fs' \in {fs, [x \in {y \in DOMAIN fs : ~IsUnder(y, q)} |-> fs[x]]}
          /\ Return(InstallError("failed to remove existing installation", "RemoveAll"))
    /\ UNCHANGED <<fsStart, tarball, entryIdx, ctxDone, installs, nonInst>>

\* installer.go:96-101
RemoveGoLink ==
    /\ instPc = "removeGoLink"
    /\ \/ /\ Lstat(fs, GoLink).err # Nil
          /\ fs' = fs
          /\ Goto("removeGoFmtLink")
       \/ /\ Lstat(fs, GoLink).err = Nil
          /\ Remove(fs, GoLink).err = Nil
          /\ fs' = Remove(fs, GoLink).fs
          /\ Goto("removeGoFmtLink")
       \/ /\ Lstat(fs, GoLink).err = Nil
          /\ fs' = fs
          /\ Return(InstallError("failed to remove existing installation", "Remove go"))
    /\ UNCHANGED <<fsStart, tarball, entryIdx, ctxDone, installs, nonInst>>

\* installer.go:103-110
RemoveGoFmtLink ==
    /\ instPc = "removeGoFmtLink"
    /\ \/ /\ Lstat(fs, GoFmtLink).err # Nil
          /\ fs' = fs
          /\ Goto("extractTarball")
       \/ /\ Lstat(fs, GoFmtLink).err = Nil
          /\ Remove(fs, GoFmtLink).err = Nil
          /\ fs' = Remove(fs, GoFmtLink).fs
          /\ Goto("extractTarball")
       \/ /\ Lstat(fs, GoFmtLink).err = Nil
          /\ fs' = fs
          /\ Return(InstallError("failed to remove existing installation", "Remove gofmt"))
    /\ UNCHANGED <<fsStart, tarball, entryIdx, ctxDone, installs, nonInst>>

\* mutant: the loop never looks at the context
LoopCancelled_Never(done) == FALSE

\* installer.go:129-133: the select at the head of every iteration takes
\* the ctx.Done() case exactly when the context is done
LoopCancelled(done) == done

\* installer.go:129-133: the context is done when an iteration starts
ExtractCancelled ==
    /\ instPc = "extractTarball"
    /\ LoopCancelled(ctxDone)
    /\ Return(InstallError("extraction failed", "extraction cancelled"))
    /\ UNCHANGED <<fs, fsStart, tarball, entryIdx, ctxDone, installs, nonInst>>

\* installer.go:115-125: the archive cannot be opened or unzipped;
\* installer.go:135-141: the next header cannot be read
ExtractReadError ==
    /\ instPc = "extractTarball"
    /\ \/ /\ entryIdx = 0
          /\ Return(InstallError("extraction failed", "failed to open tarball"))
       \/ /\ ~LoopCancelled(ctxDone)
          /\ Return(InstallError("extraction failed", "failed to read tar header"))
    /\ UNCHANGED <<fs, fsStart, tarball, entryIdx, ctxDone, installs, nonInst>>

\* installer.go:128-189: one iteration of the loop with a header read
ExtractNext ==
    /\ instPc = "extractTarball"
    /\ ~LoopCancelled(ctxDone)
    /\ entryIdx < Len(tarball)
    /\ LET done == ExtractEntry(fs, tarball[entryIdx + 1])
       IN  /\ fs' = done.fs
           /\ entryIdx' = entryIdx + 1
           /\ IF done.err = Nil THEN Goto("extractTarball")
              ELSE Return(InstallError("extraction failed", done.err))
    /\ UNCHANGED <<fsStart, tarball, ctxDone, installs, nonInst>>

\* installer.go:135-138, 191: the end of the archive
ExtractEOF ==
    /\ instPc = "extractTarball"
    /\ ~LoopCancelled(ctxDone)
    /\ entryIdx = Len(tarball)
    /\ Goto("createGoSymlink")
    /\ UNCHANGED <<fs, fsStart, tarball, entryIdx, ctxDone, installs, nonInst>>

\* installer.go:196-200
CreateGoSymlink ==
    /\ instPc = "createGoSymlink"
    /\ LET link == Symlink(fs, GoSrc, GoLink)
       IN  /\ fs' = link.fs
           /\ IF link.err = Nil THEN Goto("createGoFmtSymlink")
              ELSE Return(InstallError("failed to create symlinks", "go"))
    /\ UNCHANGED <<fsStart, tarball, entryIdx, ctxDone, installs, nonInst>>

\* installer.go:202-208
CreateGoFmtSymlink ==
    /\ instPc = "createGoFmtSymlink"
    /\ LET link == Symlink(fs, GoFmtSrc, GoFmtLink)
       IN  /\ fs' = link.fs
           /\ IF link.err = Nil THEN Return(NoError)
              ELSE Return(InstallError("failed to create symlinks", "gofmt"))
    /\ UNCHANGED <<fsStart, tarball, entryIdx, ctxDone, installs, nonInst>>

\* the deadline of the context passes, or it is cancelled
CancelContext ==
    /\ \/ instPc \in InstallStages
       \/ appPc \notin {"idle", "done", "panic"}
       \/ verPc \notin {"idle", "done"}
    /\ ~ctxDone
    /\ ctxDone' = TRUE
    /\ UNCHANGED <<fs, fsStart, tarball, entryIdx, instPc, instErr, installs, nonInst>>

(***************************************************************************)
(* The archives and the file systems the Installer is run on               *)
(***************************************************************************)
\* the most entries of an archive given to extractTarball alone
MaxExtractEntries == 3

\* the most entries of an archive given to Install
MaxInstallEntries == 3

\* the most Install calls made on one Installer
MaxInstalls == 2

EntryGoDir   == Header(<<"g", "o", "/">>, "dir", "0755", <<>>, Nil)
EntryGo      == Header(<<"g", "o", "/", "b", "i", "n", "/", "g", "o">>, "reg", "0755", <<>>, "new go")
EntryGoFmt   == Header(<<"g", "o", "/", "b", "i", "n", "/", "g", "o", "f", "m", "t">>, "reg", "0755", <<>>, "new gofmt")
EntryGoAgain == Header(<<"g", "o", "/", "b", "i", "n", "/", "g", "o">>, "reg", "0644", <<>>, "newer go")
\* a sibling of the install root whose name starts with the root's name
EntrySibling == Header(<<".", ".", "/", "l", "i", "b", "-", "e", "v", "i", "l", "/", "x">>, "reg", "0644", <<>>, "evil")
\* the bin directory, named from the install root
EntryParent  == Header(<<".", ".", "/", "b", "i", "n", "/", "g", "o">>, "reg", "0755", <<>>, "evil")
\* a link out of the install root, and a file named beneath that link
EntryLink    == Header(<<"g", "o", "/", "l">>, "symlink", "0777", <<".", ".", "/", ".", ".">>, Nil)
EntryBeneath == Header(<<"g", "o", "/", "l", "/", "b", "i", "n", "/", "g", "o">>, "reg", "0755", <<>>, "evil")
\* a device node: a type the extractor skips
EntryOther   == Header(<<"g", "o", "/", "d", "e", "v">>, "other", "0644", <<>>, Nil)

ExtractEntries ==
    {EntryGoDir, EntryGo, EntryGoAgain, EntrySibling, EntryParent, EntryLink,
     EntryBeneath, EntryOther}

ExtractTarballs == UNION {[1..n -> ExtractEntries] : n \in 0..MaxExtractEntries}

InstallEntries == {EntryGoDir, EntryGo, EntryGoFmt}

InstallTarballs == UNION {[1..n -> InstallEntries] : n \in 0..MaxInstallEntries}

\* the release archive: the tree with both entry points
ReleaseTarball == <<EntryGoDir, EntryGo, EntryGoFmt>>

\* the home directory alone
BareFs == MkdirAll((<<>> :> DirNode("0755")), HomeDir, "0755").fs

\* the install root and the bin directory, both empty
EmptyLayoutFs == MkdirAll(MkdirAll(BareFs, InstallDir, "0755").fs, BinDir, "0755").fs

\* the entry points of a prior installation and the links to them
OldGo    == <<"/", "h", "/", ".", "l", "o", "c", "a", "l", "/", "l", "i", "b", "/", "g", "o", "/", "b", "i", "n", "/", "g", "o">>
OldGoFmt == <<"/", "h", "/", ".", "l", "o", "c", "a", "l", "/", "l", "i", "b", "/", "g", "o", "/", "b", "i", "n", "/", "g", "o", "f", "m", "t">>

OldGoDirFs(f) ==
    WriteFile(WriteFile(MkdirAll(f, Dir(OldGo), "0755").fs,
                        OldGo, "old go", "0755").fs,
              OldGoFmt, "old gofmt", "0755").fs

\* a layout with any of a prior installation's three parts
PriorFs(goDir, goLink, goFmtLink) ==
    LET f1 == IF goDir THEN OldGoDirFs(EmptyLayoutFs) ELSE EmptyLayoutFs
        f2 == IF goLink THEN Symlink(f1, OldGo, <<"/", "h", "/", ".", "l", "o", "c", "a", "l", "/", "b", "i", "n", "/", "g", "o">>).fs ELSE f1
    IN  IF goFmtLink THEN Symlink(f2, OldGoFmt, <<"/", "h", "/", ".", "l", "o", "c", "a", "l", "/", "b", "i", "n", "/", "g", "o", "f", "m", "t">>).fs ELSE f2

InitialFileSystems ==
    {BareFs} \cup {PriorFs(d, g, f) : d \in BOOLEAN, g \in BOOLEAN, f \in BOOLEAN}

InstIdle ==
    /\ fs = BareFs
    /\ fsStart = BareFs
    /\ tarball = <<>>
    /\ entryIdx = 0
    /\ ctxDone = FALSE
    /\ instPc = "idle"
    /\ instErr = NoError
    /\ installs = 0

\* extractTarball called alone, on an empty layout
InitExtractTarball ==
    /\ fs = EmptyLayoutFs
    /\ fsStart = EmptyLayoutFs
    /\ tarball \in ExtractTarballs
    /\ entryIdx = 0
    /\ ctxDone = FALSE
    /\ instPc = "extractTarball"
    /\ instErr = NoError
    /\ installs = 0

\* an Installer before its first Install call
InitInstaller ==
    /\ fs \in InitialFileSystems
    /\ fsStart = fs
    /\ tarball = <<>>
    /\ entryIdx = 0
    /\ ctxDone = FALSE
    /\ instPc = "idle"
    /\ instErr = NoError
    /\ installs = 0

\* Install(ctx, tarballPath) is called: the first call, or a further one
\* after the one before has returned
CallInstall ==
    /\ instPc \in {"idle", "done"}
    /\ installs < MaxInstalls
    /\ tarball' \in InstallTarballs
    /\ fsStart' = fs
    /\ entryIdx' = 0
    /\ ctxDone' = FALSE
    /\ instPc' = "ensureDirectories"
    /\ instErr' = NoError
    /\ installs' = installs + 1
    /\ UNCHANGED <<fs, nonInst>>

(***************************************************************************)
(* Installer.Verify and runGoCommand (installer.go:212-277).  The          *)
(* subprocess is started with the write end of a pipe as its standard      *)
(* output and error; the parent closes its own copy of the write end and   *)
(* reads the pipe to its end, which comes when the subprocess has closed   *)
(* its copy or has exited; only then does it wait for the exit or for the  *)
(* context, whichever comes first.                                         *)
(***************************************************************************)
\* what a subprocess writes before it closes its output
ChildTexts == {<<>>, <<"g", "o", " ", "v", "e", "r", "s", "i", "o", "n", " ", "g", "o", "2", ".", "2", ".", "2", " ", "l", "i", "n", "u", "x", "/", "a", "m", "d", "6", "4">>}

ExitStatuses == {0, 1}

VerIdle ==
    /\ verPc = "idle"
    /\ verErr = Nil
    /\ child = "none"
    /\ childStdout = FALSE
    /\ childExit = 0
    /\ outputBytes = <<>>
    /\ captured = <<>>
    /\ waiter = "none"
    /\ waitCh = <<>>

\* what <binDir>/go leads to can be executed
Executable(f, path) ==
    LET s == Stat(f, path)
    IN  s.err = Nil /\ f[s.at].kind = "file" /\ f[s.at].mode = "0755"

VerifyReturn(err) ==
    /\ verPc' = "done"
    /\ verErr' = err

\* installer.go:213-217: only a missing file ends Verify here
VerifyStat ==
    /\ verPc = "stat"
    /\ IF IsNotExist(Stat(fs, GoLink).err)
       THEN VerifyReturn("Go binary not found")
       ELSE verPc' = "start" /\ verErr' = Nil
    /\ UNCHANGED <<child, childStdout, childExit, outputBytes, captured, waitVars,
                   nonVer>>

\* installer.go:231-253: the pipe is made and the subprocess started; the
\* parent closes its copy of the write end
VerifyStart ==
    /\ verPc = "start"
    /\ \/ /\ \E e \in {"failed to create pipe", "failed to start command"} :
                VerifyReturn(e)
          /\ UNCHANGED <<child, childStdout>>
       \/ /\ Executable(fs, GoLink)
          /\ verPc' = "readAll"
          /\ verErr' = Nil
          /\ child' = "running"
          /\ childStdout' = TRUE
    /\ UNCHANGED <<childExit, outputBytes, captured, waitVars, nonVer>>

\* installer.go:255: io.ReadAll(r) returns when no write end is open
PipeAtEOF(stdoutOpen) == ~stdoutOpen

\* installer.go:255-263: the output is read to its end, the channel is
\* made and the goroutine that waits for the exit is started
VerifyReadAll ==
    /\ verPc = "readAll"
    /\ PipeAtEOF(childStdout)
    /\ \/ /\ VerifyReturn("failed to read command output")
          /\ UNCHANGED <<outputBytes, waitVars>>
       \/ /\ verPc' = "select"
          /\ verErr' = Nil
          /\ outputBytes' \in ChildTexts
          /\ waiter' = "wait"
          /\ waitCh' = <<>>
    /\ UNCHANGED <<child, childStdout, childExit, captured, nonVer>>

\* installer.go:260: make(chan error, 1)
WaitChCap == 1

\* mutant: a channel without a buffer, where a send completes only while
\* the receiver is at its select
CanSend_Unbuffered(ch) == verPc = "select" /\ Len(ch) = 0

\* a send on the channel completes when its buffer has room
CanSend(ch) == Len(ch) < WaitChCap

\* what cmd.Wait() returns
WaitError ==
    IF child = "killed" THEN "signal: killed"
    ELSE IF childExit # 0 THEN "exit status 1"
    ELSE Nil

\* installer.go:262: cmd.Wait() returns once the subprocess has ended
WaiterWaited ==
    /\ waiter = "wait"
    /\ child \in {"exited", "killed"}
    /\ waiter' = "send"
    /\ UNCHANGED <<verPc, verErr, child, childStdout, childExit, outputBytes,
                   captured, waitCh, nonVer>>

\* installer.go:262: the send on waitCh; the goroutine ends after it
WaiterSends ==
    /\ waiter = "send"
    /\ CanSend(waitCh)
    /\ waitCh' = Append(waitCh, WaitError)
    /\ waiter' = "done"
    /\ UNCHANGED <<verPc, verErr, child, childStdout, childExit, outputBytes,
                   captured, nonVer>>

\* installer.go:265-269, 275-276: the error of cmd.Wait() is received
VerifyWaited ==
    /\ verPc = "select"
    /\ Len(waitCh) > 0
    /\ waitCh' = Tail(waitCh)
    /\ IF Head(waitCh) # Nil
       THEN VerifyReturn("command failed") /\ UNCHANGED captured
       ELSE VerifyReturn(Nil) /\ captured' = outputBytes
    /\ UNCHANGED <<child, childStdout, childExit, outputBytes, waiter, nonVer>>

\* installer.go:270-272: the context is done; the subprocess is killed
VerifyCancelled ==
    /\ verPc = "select"
    /\ ctxDone
    /\ VerifyReturn(DeadlineExceeded)
    /\ child' = IF child = "running" THEN "killed" ELSE child
    /\ childStdout' = FALSE
    /\ UNCHANGED <<childExit, outputBytes, captured, waitVars, nonVer>>

\* the subprocess closes its standard output and error and runs on
ChildClosesOutput ==
    /\ child = "running"
    /\ childStdout
    /\ childStdout' = FALSE
    /\ UNCHANGED <<verPc, verErr, child, childExit, outputBytes, captured, waitVars,
                   nonVer>>

\* the subprocess exits
ChildExits ==
    /\ child = "running"
    /\ child' = "exited"
    /\ childStdout' = FALSE
    /\ childExit' \in ExitStatuses
    /\ UNCHANGED <<verPc, verErr, outputBytes, captured, waitVars, nonVer>>

\* Verify(ctx) is called on a layout with any of a prior installation's
\* three parts
InitVerify ==
    /\ fs \in InitialFileSystems
    /\ fsStart = fs
    /\ tarball = <<>>
    /\ entryIdx = 0
    /\ ctxDone = FALSE
    /\ instPc = "idle"
    /\ instErr = NoError
    /\ installs = 0
    /\ verPc = "stat"
    /\ verErr = Nil
    /\ child = "none"
    /\ childStdout = FALSE
    /\ childExit = 0
    /\ outputBytes = <<>>
    /\ captured = <<>>
    /\ waiter = "none"
    /\ waitCh = <<>>

(***************************************************************************)
(* The orchestrator: app of cmd/updatego (main.go:17-67)                   *)
(***************************************************************************)
\* runtime.Version() without its go prefix: two releases, and a development
\* build, whose version is no release number
InstalledVersions ==
    {VersionString(<<"2", "2", "2">>), VersionString(<<"10", "0", "0">>),
     <<"d", "e", "v", "e", "l">>}

\* the feeds the release server answers with
AppFeeds ==
    {<<>>,
     <<[Version |-> <<"g", "o", "2", ".", "1", "0", ".", "0">>, Stable |-> TRUE]>>,
     <<[Version |-> <<"g", "o", "1", "0", ".", "0", ".", "0">>, Stable |-> FALSE],
       [Version |-> <<"g", "o", "2", ".", "2", ".", "2">>, Stable |-> TRUE]>>}

(***************************************************************************)
(* The retry loop: wait.PollUntilContextTimeout(ctx, interval, timeout,    *)
(* immediate, condition) of k8s.io/apimachinery v0.32.3, as the three      *)
(* functions that poll call it.  It derives a context that is done when    *)
(* ctx is done or timeout has passed, creates a timer of period interval,  *)
(* calls condition at once when immediate is set, and then waits on the    *)
(* derived context and the timer: it returns the context's error when the  *)
(* context is done, and calls condition again otherwise.  It returns as    *)
(* soon as condition returns done or a non-nil error.  Time is counted in  *)
(* seconds from the call.                                                  *)
(***************************************************************************)
\* client.go:11-15
interval  == 3
timeout   == 60
immediate == TRUE

\* client.go:33, 57: the HTTP client gives up a request after this long
RequestTimeout == 30

\* version.go:72, download_test.go:76, 146: interval and timeout as passed
PollInterval == interval

\* mutant: interval passed where timeout is expected
PollTimeout_Interval == interval

PollTimeout == timeout

Max(a, b) == IF a >= b THEN a ELSE b
Min(a, b) == IF a <= b THEN a ELSE b

\* ---- the file Download writes to (os.Create, download_test.go:68)
File(data, off) == [data |-> data, off |-> off]

Zeros(n) == [i \in 1..n |-> 0]

\* output.Seek(offset, 0)
Seek(f, offset) == [f EXCEPT !.off = offset]

\* output.Truncate(size): the offset stays where it is
Truncate(f, size) ==
    [f EXCEPT !.data = IF size <= Len(@) THEN SubSeq(@, 1, size)
                       ELSE @ \o Zeros(size - Len(@))]

\* io.Copy(output, body): the bytes are written at the offset, over what is
\* there and past the end
Copy(f, bytes) ==
    LET d == IF f.off <= Len(f.data) THEN f.data
             ELSE f.data \o Zeros(f.off - Len(f.data))
    IN  File(SubSeq(d, 1, f.off) \o bytes \o SubSeq(d, f.off + Len(bytes) + 1, Len(d)),
             f.off + Len(bytes))

\* mutant: the file is rewound but not emptied
ResetOutput_SeekOnly(f) == Seek(f, 0)

\* download_test.go:78-83, when neither call fails
ResetOutput(f) == Truncate(Seek(f, 0), 0)

\* ---- what one call of condition returns and leaves behind
Outcome(done, err, seen, out, rcv) ==
    [done |-> done, err |-> err, lastSeenErr |-> seen, output |-> out,
     received |-> rcv]

\* mutant: the failure of an attempt returned as the error of condition
Retry_ReturnsError(err, out, rcv) == Outcome(FALSE, err, err, out, rcv)

\* download_test.go:92-93, 98-99, 104-105, 154-155, 160-161, 167-168,
\* version.go:75-76, 80-81: the failure is kept and (false, nil) returned
Retry(err, out, rcv) == Outcome(FALSE, Nil, err, out, rcv)

\* download_test.go:76-109: one attempt of Download; a says what it meets
DownloadCondition(seen, out, rcv, a) ==
    IF a.kind = "seek"
    THEN Outcome(FALSE, "failed to reset file position", seen, out, rcv)
    ELSE IF a.kind = "truncate"
    THEN Outcome(FALSE, "failed to truncate file", seen, Seek(out, 0), rcv)
    ELSE LET f == ResetOutput(out)
         IN  CASE a.kind = "request" ->
                    Outcome(FALSE, "failed to create request", seen, f, rcv)
               [] a.kind = "transport" ->
                    Retry("failed to perform HTTP request", f, rcv)
               [] a.kind = "status" ->
                    Retry("unexpected status code", f, rcv)
               [] a.kind = "body" ->
                    Retry("failed to copy response body", Copy(f, a.body), rcv)
               [] a.kind = "ok" ->
                    Outcome(TRUE, Nil, seen, Copy(f, a.body), rcv)

\* version.go:72-87: one attempt of getReleasesWithRetry
ReleasesCondition(seen, out, rcv, a) ==
    CASE a.kind = "transport" -> Retry("transport error", out, rcv)
      [] a.kind = "status"    -> Retry("unexpected status code", out, rcv)
      [] a.kind = "ok"        -> Outcome(TRUE, Nil, seen, out, a.body)

\* download_test.go:146-173: one attempt of fetchChecksum
ChecksumCondition(seen, out, rcv, a) ==
    CASE a.kind = "request" ->
           Outcome(FALSE, "failed to create checksum request", seen, out, rcv)
      [] a.kind = "transport" ->
           Retry("failed to perform HTTP request", out, rcv)
      [] a.kind = "status" ->
           Retry("unexpected status code", out, rcv)
      [] a.kind = "body" ->
           Retry("failed to read checksum response", out, rcv)
      [] a.kind = "ok" ->
           Outcome(TRUE, Nil, seen, out, a.body)

Condition(who, seen, out, rcv, a) ==
    CASE who = "Download"             -> DownloadCondition(seen, out, rcv, a)
      [] who = "getReleasesWithRetry" -> ReleasesCondition(seen, out, rcv, a)
      [] who = "fetchChecksum"        -> ChecksumCondition(seen, out, rcv, a)

\* ---- the bodies of the responses client.Do returned to the function
\* ---- polling: unclosed counts those no Close was called on, okGot says
\* ---- whether the 200 response was obtained, okCloses counts the Close
\* ---- calls on its body
\* the open bodies are counted up to this many: unclosed = MaxUnclosed
\* stands for that many or more
MaxUnclosed == 2

NoBodies == [unclosed |-> 0, okGot |-> FALSE, okCloses |-> 0]

\* client.Do has returned a response
Got(b, kind) ==
    [b EXCEPT !.unclosed = Min(@ + 1, MaxUnclosed), !.okGot = @ \/ kind = "ok"]

\* resp.Body.Close() on the response of the attempt of this kind
Close(b, kind) ==
    [b EXCEPT !.unclosed = IF 0 < @ /\ @ < MaxUnclosed THEN @ - 1 ELSE @,
              !.okCloses = IF kind = "ok" THEN @ + 1 ELSE @]

\* download_test.go:95, 157: condition defers resp.Body.Close();
\* version.go:73-86: the condition of getReleasesWithRetry calls no Close
ClosesInCondition(who) == who \in {"Download", "fetchChecksum"}

\* the bodies after one attempt
AttemptBodies(who, b, a) ==
    IF a.kind \notin {"status", "body", "ok"} THEN b
    ELSE IF ClosesInCondition(who) THEN Close(Got(b, a.kind), a.kind)
    ELSE Got(b, a.kind)

\* version.go:69, 84: the variable body of getReleasesWithRetry
BodyNow(b) == IF b.okGot THEN "resp.Body" ELSE "nil"

\* version.go:69-70: defer safeClose(body) evaluates its argument when the
\* defer statement is executed, where body is still nil
BodyAtDefer(b) == BodyNow(NoBodies)

\* mutant: Close called without the test for nil
safeClose_NoNilCheck(body, b) == Close(b, "ok")

\* client.go:61-65
safeClose(body, b) ==
    IF body # "nil" THEN Close(b, "ok") ELSE b

\* ---- safeClose called on its own, any number of times, with nil or with
\* ---- the body of the 200 response when there is one
\* the most calls of safeClose made in a row
MaxSafeCloseCalls == 8

ScIdle ==
    /\ scBodies = NoBodies
    /\ scBefore = NoBodies
    /\ scArg = "nil"
    /\ scCalls = 0

\* the bodies obtained before the first call: none, the 200 response's,
\* or a non-200 response's first
BodiesAtCall ==
    {NoBodies, Got(NoBodies, "ok"), Got(NoBodies, "status"),
     Got(Got(NoBodies, "status"), "ok")}

InitSafeCloseCalls ==
    /\ scBodies \in BodiesAtCall
    /\ scBefore = scBodies
    /\ scArg = "nil"
    /\ scCalls = 0

\* one call safeClose(body): body is nil, or the body of the 200 response
CallSafeClose ==
    /\ scCalls < MaxSafeCloseCalls
    /\ \E body \in {"nil", BodyNow(scBodies)} :
          /\ scArg' = body
          /\ scBodies' = safeClose(body, scBodies)
    /\ scBefore' = scBodies
    /\ scCalls' = scCalls + 1
    /\ UNCHANGED nonSc

\* ---- what an attempt can meet: the failure or the answer, the bytes that
\* ---- arrive, and the seconds it takes
Attempt(kind, body, took) == [kind |-> kind, body |-> body, took |-> took]

NoAttempt == Attempt("none", <<>>, 0)

Latencies == {0, RequestTimeout}

\* the bytes of an archive that arrive before the connection breaks; the
\* archive served may be longer than the one served at a later attempt
PartialContents ==
    {SubSeq(c, 1, n) : c \in FileContents, n \in 0..(FileBits - 1)}
        \cup {[i \in 1..(FileBits + 1) |-> 1]}

\* the body of the release feed: JSON that decodes to releases, or not
FeedBody(decodes, releases) == [decodes |-> decodes, releases |-> releases]

FeedBodies == {FeedBody(TRUE, f) : f \in AppFeeds} \cup {FeedBody(FALSE, <<>>)}

ChecksumBodies ==
    {ChecksumBody(PublishedToken(of, case), "hash  filename") :
        of \in FileContents, case \in {"lower", "upper"}}

Attempts(who) ==
    CASE who = "Download" ->
           {Attempt(k, <<>>, 0) : k \in {"seek", "truncate", "request"}}
           \cup {Attempt(k, <<>>, t) : k \in {"transport", "status"}, t \in Latencies}
           \cup {Attempt("body", b, t) : b \in PartialContents, t \in Latencies}
           \cup {Attempt("ok", b, t) : b \in FileContents, t \in Latencies}
      [] who = "getReleasesWithRetry" ->
           {Attempt(k, <<>>, t) : k \in {"transport", "status"}, t \in Latencies}
           \cup {Attempt("ok", b, t) : b \in FeedBodies, t \in Latencies}
      [] who = "fetchChecksum" ->
           {Attempt("request", <<>>, 0)}
           \cup {Attempt(k, <<>>, t) :
                    k \in {"transport", "status", "body"}, t \in Latencies}
           \cup {Attempt("ok", b, t) : b \in ChecksumBodies, t \in Latencies}

\* the failures of an attempt that condition keeps and answers with
\* (false, nil)
RetryableKinds == {"transport", "status", "body"}

\* the server has answered
AnsweredKinds == {"status", "body", "ok"}

\* download_test.go:85, 147: the request of Download and of fetchChecksum
\* carries the context of the polling, so it ends when that context is
\* done; version.go:44: the request of getReleasesWithRetry carries the
\* context of the caller
BoundToPolling(who) == who # "getReleasesWithRetry"

\* whether the attempt a can happen now
CanMeet(who, a, now, parentDone) ==
    a.kind \in AnsweredKinds =>
        /\ ~parentDone
        /\ BoundToPolling(who) => now + a.took <= timeout

\* when the attempt a begun now ends
EndOf(who, a, now) ==
    IF BoundToPolling(who) /\ a.kind = "transport"
    THEN Min(now + a.took, Max(now, timeout))
    ELSE now + a.took

\* ---- PollUntilContextTimeout
PollIdle ==
    /\ pollPc = "idle"
    /\ pollWho = "none"
    /\ elapsed = 0
    /\ timerAt = 0
    /\ timeoutErr = Nil
    /\ lastSeenErr = Nil
    /\ attempts = 0
    /\ output = File(<<>>, 0)
    /\ received = <<>>
    /\ sent = NoAttempt
    /\ bodies = NoBodies

\* the function polling has returned
StopPolling ==
    /\ pollPc' = "idle"
    /\ pollWho' = "none"
    /\ elapsed' = 0
    /\ timerAt' = 0
    /\ timeoutErr' = Nil
    /\ lastSeenErr' = Nil
    /\ attempts' = 0
    /\ output' = File(<<>>, 0)
    /\ received' = <<>>
    /\ sent' = NoAttempt

\* the call: the timer is created, and condition is called at once when
\* immediate is set
StartPolling(who) ==
    /\ pollPc' = IF immediate THEN "condition" ELSE "select"
    /\ pollWho' = who
    /\ elapsed' = 0
    /\ timerAt' = PollInterval
    /\ timeoutErr' = Nil
    /\ lastSeenErr' = Nil
    /\ attempts' = 0
    /\ output' = File(<<>>, 0)
    /\ received' = <<>>
    /\ sent' = NoAttempt
    /\ bodies' = NoBodies

\* the function polling returns before it polls
ReturnUnpolled(who, err) ==
    /\ pollPc' = "done"
    /\ pollWho' = who
    /\ timeoutErr' = err
    /\ lastSeenErr' = Nil
    /\ bodies' = NoBodies
    /\ UNCHANGED <<elapsed, timerAt, attempts, output, received, sent>>

\* mutant: the polling goes on when condition returns an error
ConditionEnds_DoneOnly(done, err) == done

\* version.go:72, download_test.go:76, 146: PollUntilContextTimeout returns
\* what condition returned as soon as that is done or an error
ConditionEnds(done, err) == err # Nil \/ done

\* condition is called: it returns done or an error and the polling ends,
\* or (false, nil) and the polling goes on
PollCondition ==
    /\ pollPc = "condition"
    /\ \E a \in Attempts(pollWho) :
          /\ CanMeet(pollWho, a, elapsed, ctxDone)
          /\ LET r == Condition(pollWho, lastSeenErr, output, received, a)
             IN  /\ lastSeenErr' = r.lastSeenErr
                 /\ output' = r.output
                 /\ received' = r.received
                 /\ timeoutErr' = r.err
                 /\ pollPc' = IF ConditionEnds(r.done, r.err) THEN "done" ELSE "select"
          /\ elapsed' = EndOf(pollWho, a, elapsed)
          /\ sent' = Attempt(a.kind, a.body, 0)
          /\ bodies' = AttemptBodies(pollWho, bodies, a)
    /\ attempts' = attempts + 1
    /\ UNCHANGED <<pollWho, timerAt, nonPoll>>

\* the wait on the context and the timer: the context's error is returned
\* when the context is done by the time the timer has fired; otherwise the
\* timer is set again and condition is called
PollSelect ==
    /\ pollPc = "select"
    /\ LET wake == Max(elapsed, timerAt)
       IN  IF ctxDone
           THEN /\ pollPc' = "done"
                /\ timeoutErr' = DeadlineExceeded
                /\ UNCHANGED <<elapsed, timerAt>>
           ELSE IF wake >= PollTimeout
           THEN /\ pollPc' = "done"
                /\ timeoutErr' = DeadlineExceeded
                /\ elapsed' = Max(elapsed, PollTimeout)
                /\ UNCHANGED timerAt
           ELSE /\ pollPc' = "condition"
                /\ timeoutErr' = Nil
                /\ elapsed' = wake
                /\ timerAt' = wake + PollInterval
    /\ UNCHANGED <<pollWho, lastSeenErr, attempts, output, received, sent, bodies,
                   nonPoll>>

\* version.go:89-95, download_test.go:111-117, 175-181: the error wrapped
\* in the one returned when the polling ended with the error err and the
\* last failure kept by condition is seen
WrappedError(err, seen) == IF seen # Nil THEN seen ELSE err

\* version.go:89-102: what getReleasesWithRetry returns once the polling
\* has ended
getReleasesWithRetry(err, body) ==
    IF err # Nil THEN [releases |-> <<>>, err |-> "failed to fetch version info"]
    ELSE IF ~body.decodes
    THEN [releases |-> <<>>, err |-> "failed to parse version info"]
    ELSE [releases |-> body.releases, err |-> Nil]

\* the archive the bytes of the downloaded file are: the release when no
\* bit is set, an altered archive otherwise
TarballOf(content) ==
    IF \A i \in 1..Len(content) : content[i] = 0 THEN ReleaseTarball
    ELSE <<EntryGoDir, EntryGo>>

Downloaded(content) == [path |-> "outputPath", content |-> content, err |-> Nil]
NotDownloaded(e)    == [path |-> "", content |-> <<>>, err |-> e]

\* download_test.go:59-71
CreateErrors == {"failed to create temporary directory", "failed to create output file"}

\* download_test.go:59-71, 111-119: what Download returns
Download(err, seen, out) ==
    IF err \in CreateErrors THEN NotDownloaded(err)
    ELSE IF err # Nil
    THEN IF seen # Nil THEN NotDownloaded("download failed with")
         ELSE NotDownloaded("download failed after retries")
    ELSE Downloaded(out.data)

\* mutant: the verdict of VerifyChecksum not looked at
AfterVerify_IgnoreVerdict(out) ==
    IF out.err # Nil
    THEN [pc |-> "done", err |-> "failed to verify downloaded version"]
    ELSE [pc |-> "newInstaller", err |-> Nil]

\* main.go:47-55: where app goes with what VerifyChecksum returned
AfterVerify(out) ==
    IF out.err # Nil
    THEN [pc |-> "done", err |-> "failed to verify downloaded version"]
    ELSE IF ~out.res
    THEN [pc |-> "done", err |-> "downloaded version could not be verified"]
    ELSE [pc |-> "newInstaller", err |-> Nil]

\* mutant: the error of Download not looked at
AfterDownload_IgnoreError(out) == [pc |-> "verify", err |-> Nil]

\* mutant: app calls Download again when it has failed
AfterDownload_RetryOnError(out) ==
    IF out.err # Nil
    THEN [pc |-> "download", err |-> Nil]
    ELSE [pc |-> "verify", err |-> Nil]

\* main.go:42-45
AfterDownload(out) ==
    IF out.err # Nil
    THEN [pc |-> "done", err |-> "failed to download latest version"]
    ELSE [pc |-> "verify", err |-> Nil]

\* mutant: the verdict of NeedsUpdate not looked at
AfterNeedsUpdate_IgnoreVerdict(out) ==
    IF out.err # Nil
    THEN [pc |-> "done", err |-> "failed to check if update is needed"]
    ELSE [pc |-> "download", err |-> Nil]

\* main.go:28-39
AfterNeedsUpdate(out) ==
    IF out.err # Nil
    THEN [pc |-> "done", err |-> "failed to check if update is needed"]
    ELSE IF ~out.res THEN [pc |-> "done", err |-> Nil]
    ELSE [pc |-> "download", err |-> Nil]

AppIdle ==
    /\ appPc = "idle"
    /\ appErr = Nil
    /\ appFsStart = BareFs
    /\ currentVersion = <<>>
    /\ latestVersion = NotFound("not called")
    /\ needsUpdate = NoResult
    /\ download = NotDownloaded("not called")
    /\ verified = NoResult
    /\ installerNil = FALSE
    /\ installCalls = 0

InitApp ==
    /\ fs \in {BareFs, PriorFs(TRUE, TRUE, TRUE)}
    /\ fsStart = fs
    /\ tarball = <<>>
    /\ entryIdx = 0
    /\ ctxDone = FALSE
    /\ instPc = "idle"
    /\ instErr = NoError
    /\ installs = 0
    /\ appPc = "getLatestVersion"
    /\ appErr = Nil
    /\ appFsStart = fs
    /\ currentVersion \in InstalledVersions
    /\ latestVersion = NotFound("not called")
    /\ needsUpdate = NoResult
    /\ download = NotDownloaded("not called")
    /\ verified = NoResult
    /\ installerNil = FALSE
    /\ installCalls = 0

AppGoto(next) ==
    /\ appPc' = next.pc
    /\ appErr' = next.err

\* version.go:65-72: getReleasesWithRetry begins to poll
AppPollReleases ==
    /\ appPc = "getLatestVersion"
    /\ pollPc = "idle"
    /\ StartPolling("getReleasesWithRetry")
    /\ UNCHANGED nonPoll

\* main.go:21-26: the polling has ended and GetLatestVersion returns
AppGetLatestVersion ==
    /\ appPc = "getLatestVersion"
    /\ pollPc = "done"
    /\ StopPolling
    /\ bodies' = safeClose(BodyAtDefer(bodies), bodies)
    /\ LET r == getReleasesWithRetry(timeoutErr, received)
       IN  latestVersion' = GetLatestVersion(r.err, r.releases)
    /\ IF latestVersion'.err # Nil
       THEN AppGoto([pc |-> "done", err |-> "failed to get latest version"])
       ELSE AppGoto([pc |-> "needsUpdate", err |-> Nil])
    /\ UNCHANGED <<appFsStart, currentVersion, needsUpdate, download, verified,
                   installerNil, installCalls>>
    /\ UNCHANGED <<nuVars, ordVars, glvVars, vcVars, instVars, verVars, scVars>>

\* main.go:28-39
AppNeedsUpdate ==
    /\ appPc = "needsUpdate"
    /\ needsUpdate' = NeedsUpdate(currentVersion, latestVersion.version)
    /\ AppGoto(AfterNeedsUpdate(needsUpdate'))
    /\ UNCHANGED <<appFsStart, currentVersion, latestVersion, download, verified,
                   installerNil, installCalls, nonApp>>

\* download_test.go:57-76: Download creates its file in a temporary
\* directory of its own and begins to poll, or fails to create it
AppPollDownload ==
    /\ appPc = "download"
    /\ pollPc = "idle"
    /\ \/ StartPolling("Download")
       \/ \E e \in CreateErrors : ReturnUnpolled("Download", e)
    /\ UNCHANGED nonPoll

\* main.go:41-45: the polling has ended and Download returns
AppDownload ==
    /\ appPc = "download"
    /\ pollPc = "done"
    /\ StopPolling
    /\ bodies' = bodies
    /\ download' = Download(timeoutErr, lastSeenErr, output)
    /\ AppGoto(AfterDownload(download'))
    /\ UNCHANGED <<appFsStart, currentVersion, latestVersion, needsUpdate, verified,
                   installerNil, installCalls>>
    /\ UNCHANGED <<nuVars, ordVars, glvVars, vcVars, instVars, verVars, scVars>>

\* download_test.go:123-146: VerifyChecksum calls fetchChecksum, which
\* begins to poll
AppPollChecksum ==
    /\ appPc = "verify"
    /\ pollPc = "idle"
    /\ StartPolling("fetchChecksum")
    /\ UNCHANGED nonPoll

\* main.go:47-57: the polling has ended, fetchChecksum returns and
\* VerifyChecksum goes on with the file Download wrote
AppVerifyChecksum ==
    /\ appPc = "verify"
    /\ pollPc = "done"
    /\ StopPolling
    /\ bodies' = bodies
    /\ \E re \in FileErrors :
          verified' = VerifyChecksum(timeoutErr, received, re, download.content)
    /\ AppGoto(AfterVerify(verified'))
    /\ UNCHANGED <<appFsStart, currentVersion, latestVersion, needsUpdate, download,
                   installerNil, installCalls>>
    /\ UNCHANGED <<nuVars, ordVars, glvVars, vcVars, instVars, verVars, scVars>>

\* main.go:59: the error of NewInstaller is overwritten unread; the
\* Installer is nil when the user and HOME are both unknown
AppNewInstaller ==
    /\ appPc = "newInstaller"
    /\ installerNil' \in BOOLEAN
    /\ AppGoto([pc |-> "install", err |-> Nil])
    /\ UNCHANGED <<appFsStart, currentVersion, latestVersion, needsUpdate, download,
                   verified, installCalls, nonApp>>

\* main.go:60: installer.Install(ctx, path) is called; on a nil Installer
\* the first field read (installer.go:75) is a nil dereference, a panic
AppCallInstall ==
    /\ appPc = "install"
    /\ installCalls' = installCalls + 1
    /\ IF installerNil
       THEN /\ AppGoto([pc |-> "panic", err |-> "nil pointer dereference"])
            /\ UNCHANGED instVars
       ELSE /\ AppGoto([pc |-> "installing", err |-> Nil])
            /\ tarball' = TarballOf(download.content)
            /\ fsStart' = fs
            /\ entryIdx' = 0
            /\ instPc' = "ensureDirectories"
            /\ instErr' = NoError
            /\ installs' = installs + 1
            /\ UNCHANGED <<fs, ctxDone>>
    /\ UNCHANGED <<appFsStart, currentVersion, latestVersion, needsUpdate, download,
                   verified, installerNil, nuVars, ordVars, glvVars, vcVars,
                   pollVars, verVars, scVars>>

\* main.go:60-66
AppInstallReturns ==
    /\ appPc = "installing"
    /\ instPc = "done"
    /\ IF instErr # NoError
       THEN AppGoto([pc |-> "done", err |-> "failed to install Go"])
       ELSE AppGoto([pc |-> "done", err |-> Nil])
    /\ UNCHANGED <<appFsStart, currentVersion, latestVersion, needsUpdate, download,
                   verified, installerNil, installCalls, nonApp>>

(***************************************************************************)
(* Specifications                                                          *)
(***************************************************************************)
\* NeedsUpdate on the version strings
InitNeedsUpdate ==
    NuIdle /\ OrdIdle /\ GlvIdle /\ VcIdle /\ InstIdle /\ AppIdle /\ PollIdle /\ VerIdle /\ ScIdle
NextNeedsUpdate == CallNeedsUpdate
SpecNeedsUpdate == InitNeedsUpdate /\ [][NextNeedsUpdate]_vars

\* NeedsUpdate on the pairs of three valid versions
InitOrder ==
    NuIdle /\ OrdIdle /\ GlvIdle /\ VcIdle /\ InstIdle /\ AppIdle /\ PollIdle /\ VerIdle /\ ScIdle
NextOrder == ComparePairwise
SpecOrder == InitOrder /\ [][NextOrder]_vars

\* GetLatestVersion on the feeds
InitLatest ==
    NuIdle /\ OrdIdle /\ GlvIdle /\ VcIdle /\ InstIdle /\ AppIdle /\ PollIdle /\ VerIdle /\ ScIdle
NextLatest == CallGetLatestVersion
SpecLatest == InitLatest /\ [][NextLatest]_vars

\* VerifyChecksum on the files and the published checksums
InitChecksum ==
    NuIdle /\ OrdIdle /\ GlvIdle /\ VcIdle /\ InstIdle /\ AppIdle /\ PollIdle /\ VerIdle /\ ScIdle
NextChecksum == CallVerifyChecksum
SpecChecksum == InitChecksum /\ [][NextChecksum]_vars

\* extractTarball alone, on the archives
InitExtract ==
    /\ NuIdle /\ OrdIdle /\ GlvIdle /\ VcIdle /\ InitExtractTarball /\ AppIdle
    /\ PollIdle /\ VerIdle /\ ScIdle
NextExtract ==
    \/ ExtractCancelled
    \/ ExtractReadError
    \/ ExtractNext
    \/ ExtractEOF
    \/ CancelContext
SpecExtract == InitExtract /\ [][NextExtract]_vars

\* Install calls on one Installer
InitInstall ==
    /\ NuIdle /\ OrdIdle /\ GlvIdle /\ VcIdle /\ InitInstaller /\ AppIdle
    /\ PollIdle /\ VerIdle /\ ScIdle
NextInstall ==
    \/ CallInstall
    \/ EnsureDirectories
    \/ RemoveExistingDir
    \/ RemoveGoLink
    \/ RemoveGoFmtLink
    \/ ExtractCancelled
    \/ ExtractReadError
    \/ ExtractNext
    \/ ExtractEOF
    \/ CreateGoSymlink
    \/ CreateGoFmtSymlink
    \/ CancelContext
SpecInstall == InitInstall /\ [][NextInstall]_vars

\* an Installer used again and again, on an install root and a bin
\* directory that are empty at first
InitReinstall == InitInstall /\ fs = EmptyLayoutFs
SpecReinstall == InitReinstall /\ [][NextInstall]_vars

\* safeClose alone
InitSafeClose ==
    /\ NuIdle /\ OrdIdle /\ GlvIdle /\ VcIdle /\ InstIdle /\ AppIdle /\ PollIdle
    /\ VerIdle /\ InitSafeCloseCalls
NextSafeClose == CallSafeClose
SpecSafeClose == InitSafeClose /\ [][NextSafeClose]_vars

\* Verify alone; the subprocess runs as it likes, Verify and the clock of
\* the context go on
InitVerifyAlone ==
    /\ NuIdle /\ OrdIdle /\ GlvIdle /\ VcIdle /\ AppIdle /\ PollIdle /\ InitVerify
    /\ ScIdle
VerifySteps ==
    \/ VerifyStat
    \/ VerifyStart
    \/ VerifyReadAll
    \/ VerifyWaited
    \/ VerifyCancelled
\* the goroutine started by runGoCommand runs when it can
WaiterSteps ==
    \/ WaiterWaited
    \/ WaiterSends
NextVerify ==
    \/ VerifySteps
    \/ WaiterSteps
    \/ ChildClosesOutput
    \/ ChildExits
    \/ CancelContext
SpecVerify ==
    /\ InitVerifyAlone
    /\ [][NextVerify]_vars
    /\ WF_vars(VerifySteps)
    /\ WF_vars(WaiterSteps)
    /\ WF_vars(CancelContext)

\* one run of app; every step of it is taken in time
Init == NuIdle /\ OrdIdle /\ GlvIdle /\ VcIdle /\ InitApp /\ PollIdle /\ VerIdle /\ ScIdle
Next ==
    \/ AppPollReleases
    \/ AppGetLatestVersion
    \/ AppNeedsUpdate
    \/ AppPollDownload
    \/ AppDownload
    \/ AppPollChecksum
    \/ AppVerifyChecksum
    \/ AppNewInstaller
    \/ AppCallInstall
    \/ AppInstallReturns
    \/ PollCondition
    \/ PollSelect
    \/ EnsureDirectories
    \/ RemoveExistingDir
    \/ RemoveGoLink
    \/ RemoveGoFmtLink
    \/ ExtractCancelled
    \/ ExtractReadError
    \/ ExtractNext
    \/ ExtractEOF
    \/ CreateGoSymlink
    \/ CreateGoFmtSymlink
    \/ CancelContext
Spec == Init /\ [][Next]_vars /\ WF_vars(Next)


(***************************************************************************)
(* Claims about NeedsUpdate                                                *)
(***************************************************************************)
NaturalLess(t, u) ==
    IF FitsInt(t) /\ FitsInt(u) THEN TokenValue(t) < TokenValue(u)
    ELSE FitsInt(t) /\ ~FitsInt(u)

\* (major, minor, patch) of p strictly below that of q, lexicographically
LexLess(p, q) ==
    \/ NaturalLess(p[1], q[1])
    \/ p[1] = q[1] /\ NaturalLess(p[2], q[2])
    \/ p[1] = q[1] /\ p[2] = q[2] /\ NaturalLess(p[3], q[3])

ThreeNaturals(p) ==
    Len(p) = 3 /\ \A k \in 1..3 : TokenKind(p[k]) = "natural"

ThreeInts(p) == Len(p) = 3 /\ \A k \in 1..3 : FitsInt(p[k])

\* C5, as stated: for installed and latest that are each three dot-separated
\* non-negative integers, NeedsUpdate returns no error and returns true
\* exactly when installed is lexicographically below latest.
C5_NaturalsComparedLexicographically ==
    (nuPc = "done" /\ ThreeNaturals(installedParts) /\ ThreeNaturals(latestParts))
        => /\ nuOut.err = Nil
           /\ nuOut.res = LexLess(installedParts, latestParts)

\* C5, amended: the same for three dot-separated non-negative integers that
\* each fit Go's int (at most 2^63 - 1); a larger component is a range error
\* of strconv.Atoi when the comparison reaches it.
C5_IntsComparedLexicographically ==
    (nuPc = "done" /\ ThreeInts(installedParts) /\ ThreeInts(latestParts))
        => /\ nuOut.err = Nil
           /\ nuOut.res = LexLess(installedParts, latestParts)

\* C5 witness: equal majors, minors 2 and 10 (numerically, not textually,
\* ordered) and the answer true
C5_Witness ==
    /\ nuPc = "done"
    /\ installedParts = <<"2", "2", "10">>
    /\ latestParts = <<"2", "10", "0">>
    /\ nuOut = Verdict(TRUE)

HasJunkComponent(p) ==
    \E k \in 1..3 : k <= Len(p) /\ TokenKind(p[k]) = "junk"

\* C6: for non-empty installed, when a major, minor or patch component of
\* either string does not parse as an integer, NeedsUpdate returns an error,
\* whatever the other components are.
C6_UnparsableComponentIsError ==
    (/\ nuPc = "done"
     /\ installed # <<>>
     /\ HasJunkComponent(installedParts) \/ HasJunkComponent(latestParts))
        => nuOut.err # Nil

\* C8: NeedsUpdate("", latest) is (true, nil) for every latest.
C8_EmptyInstalledNeedsUpdate ==
    (nuPc = "done" /\ installed = <<>>) => nuOut = Verdict(TRUE)

\* C8 witness: empty installed with a latest that would not parse
C8_Witness ==
    /\ nuPc = "done"
    /\ installed = <<>>
    /\ latestParts = <<"a", "a", "a">>
    /\ nuOut = Verdict(TRUE)

IsTrue(p) == ordOut[p].err = Nil /\ ordOut[p].res

\* C7: over valid three-component versions NeedsUpdate is a strict total
\* order: irreflexive, exactly one of (a, b) and (b, a) for different
\* versions, and transitive.
C7_StrictTotalOrder ==
    ordPc = "done" =>
        /\ \A p \in Pairs : ordOut[p].err = Nil
        /\ ~IsTrue("aa")
        /\ ordA # ordB => (IsTrue("ab") # IsTrue("ba"))
        /\ ordA = ordB => ~IsTrue("ab") /\ ~IsTrue("ba")
        /\ (IsTrue("ab") /\ IsTrue("bc")) => IsTrue("ac")
        /\ (IsTrue("cb") /\ IsTrue("ba")) => IsTrue("ca")

\* C7 witness: a chain a < b < c decided at three different components
C7_Witness ==
    /\ ordPc = "done"
    /\ ordA = <<"2", "2", "2">>
    /\ ordB = <<"2", "2", "10">>
    /\ ordC = <<"2", "10", "0">>
    /\ IsTrue("ab") /\ IsTrue("bc") /\ IsTrue("ac")
    /\ ~IsTrue("ba") /\ ~IsTrue("cb") /\ ~IsTrue("ca")

\* C24: for non-empty installed, NeedsUpdate returns a result without an
\* error only when both strings are exactly three dot-separated non-negative
\* integers; fewer or more components, or a negative one, are an error.
C24_OnlyThreeNaturalsAccepted ==
    (nuPc = "done" /\ installed # <<>> /\ nuOut.err = Nil)
        => (ThreeNaturals(installedParts) /\ ThreeNaturals(latestParts))

(***************************************************************************)
(* Claims about GetLatestVersion                                           *)
(***************************************************************************)
\* stable, and the identifier starts with the letters g, o
IsStableGo(r) ==
    r.Stable /\ Len(r.Version) >= 2 /\ r.Version[1] = "g" /\ r.Version[2] = "o"

WithoutFirstTwo(s) == [i \in 1..(Len(s) - 2) |-> s[i + 2]]

\* C9: when the feed was fetched, GetLatestVersion returns the identifier,
\* without its go prefix, of the first entry in feed order that is stable and
\* starts with go, whatever follows it; it fails exactly when no entry is.
C9_FirstStableEntryWins ==
    (glvPc = "done" /\ feedErr = Nil) =>
        /\ glvOut.err # Nil <=> ~\E k \in 1..Len(feed) : IsStableGo(feed[k])
        /\ \A k \in 1..Len(feed) :
              (IsStableGo(feed[k]) /\ \A j \in 1..(k - 1) : ~IsStableGo(feed[j]))
                  => glvOut = Found(WithoutFirstTwo(feed[k].Version))

\* C9 witness: an unstable and an unprefixed entry, then go2, then the
\* later and greater go10; the answer is 2
C9_Witness ==
    /\ glvPc = "done"
    /\ feedErr = Nil
    /\ Len(feed) = 3
    /\ feed[1] = [Version |-> <<"g", "o", "1", "0">>, Stable |-> FALSE]
    /\ feed[2] = [Version |-> <<"g", "o", "2">>, Stable |-> TRUE]
    /\ feed[3] = [Version |-> <<"g", "o", "1", "0">>, Stable |-> TRUE]
    /\ glvOut = Found(<<"2">>)

\* C13: in the three polling loops an attempt that ends with a transport
\* error, a status other than 200 or a failure to copy or read the body
\* does not end the polling and is not returned: the polling goes on to
\* wait, and then either makes the next attempt, an interval or more after
\* the one before began and inside the budget, or has ended because the
\* budget has elapsed or the context is done.
C13_RetryableFailureNeverEndsPolling ==
    sent.kind \in RetryableKinds =>
        /\ pollPc \in {"select", "condition", "done"}
        /\ pollPc = "select" => timeoutErr = Nil
        /\ pollPc = "condition" =>
              /\ timeoutErr = Nil
              /\ elapsed >= attempts * interval
              /\ elapsed < timeout
        /\ pollPc = "done" =>
              /\ timeoutErr = DeadlineExceeded
              /\ ctxDone \/ elapsed >= timeout

\* C13 witness: two attempts of no length have failed, the third is about
\* to be made two intervals after the first
C13_Witness ==
    /\ pollPc = "condition"
    /\ attempts = 2
    /\ sent.kind \in RetryableKinds
    /\ elapsed = 2 * interval
    /\ ~ctxDone


\* C14: when the context of the caller is not done, a polling whose
\* attempts all fail ends with the timeout error only once the budget of a
\* minute has elapsed since the call, and never before; the first attempt
\* has been made by then.
C14_TimeoutOnlyAfterBudget ==
    (pollPc = "done" /\ timeoutErr = DeadlineExceeded /\ ~ctxDone) =>
        /\ elapsed >= timeout
        /\ attempts >= 1
        /\ sent.kind \in RetryableKinds

\* C14 witness: attempts of no length every three seconds from the call on,
\* all failed, and the timeout at the minute
C14_Witness ==
    /\ pollPc = "done"
    /\ timeoutErr = DeadlineExceeded
    /\ ~ctxDone
    /\ elapsed = timeout
    /\ attempts = timeout \div interval

\* what the attempt a failed with: the error condition returned or kept
FailureOf(who, a) ==
    LET r == Condition(who, Nil, File(<<>>, 0), <<>>, a)
    IN  IF r.err # Nil THEN r.err ELSE r.lastSeenErr

\* the polling has ended without success after at least one attempt
PollingFailed == pollPc = "done" /\ timeoutErr # Nil /\ attempts > 0

\* the part of C28 about a polling that ran out of time
TimeoutSurfacesLastFailure ==
    (PollingFailed /\ timeoutErr = DeadlineExceeded)
        => /\ lastSeenErr # Nil
           /\ WrappedError(timeoutErr, lastSeenErr) = FailureOf(pollWho, sent)

\* C28: when the polling of getReleasesWithRetry, Download or fetchChecksum
\* ends without success, the error returned wraps the last failure the
\* attempts recorded when there is one and the poller's own error otherwise,
\* and it always describes the cause of the most recent failed attempt.
C28_ErrorDescribesLastFailure ==
    PollingFailed
        => /\ WrappedError(timeoutErr, lastSeenErr)
                = (IF lastSeenErr # Nil THEN lastSeenErr ELSE timeoutErr)
           /\ WrappedError(timeoutErr, lastSeenErr) = FailureOf(pollWho, sent)

(***************************************************************************)
(* Claims about VerifyChecksum                                             *)
(***************************************************************************)
\* C10: when the checksum fetch succeeds and the file is readable,
\* VerifyChecksum returns (true, nil) exactly when the published digest token
\* equals, letter case included, the lowercase hex SHA-256 of the file, and
\* (false, nil) otherwise; a mismatch is never an error.
C10_VerdictIsExactEquality ==
    (vcPc = "done" /\ sumFetchErr = Nil /\ sumFileErr = Nil) =>
        /\ vcOut.err = Nil
        /\ vcOut.res = (sumTokenOf = sumContent /\ sumTokenCase = "lower")

\* C10 witness: the digest of the same file published in uppercase, in the
\* "<hash>  <filename>" layout, is a mismatch and no error
C10_Witness ==
    /\ vcPc = "done"
    /\ sumFetchErr = Nil
    /\ sumFileErr = Nil
    /\ sumTokenOf = sumContent
    /\ sumTokenCase = "upper"
    /\ Len(sumBody) > 2 * FileBits
    /\ vcOut = Verdict(FALSE)

\* the digest token the fetched body was made from
sumToken == PublishedToken(sumTokenOf, sumTokenCase)

\* C27: fetchChecksum returns the first whitespace-delimited token of the
\* fetched body - in the "<hash>  <filename>" layout, with leading
\* whitespace and with a trailing newline - and the whole body when it holds
\* no whitespace; nothing after the first token affects the result.
C27_DigestIsFirstToken ==
    (vcPc = "done" /\ sumFetchErr = Nil)
        => fetchChecksum(sumFetchErr, sumBody) = [sum |-> sumToken, err |-> Nil]

\* a body with whitespace before and after the token, and a file whose
\* digest is that token: the verification has passed
C27_Witness ==
    /\ vcPc = "done"
    /\ sumFetchErr = Nil
    /\ sumFileErr = Nil
    /\ IsSpace(sumBody[1])
    /\ Len(sumBody) > Len(sumToken) + 2
    /\ vcOut = Verdict(TRUE)

(***************************************************************************)
(* Claims about extractTarball                                             *)
(***************************************************************************)
RootSegs == Segments(InstallDir)

\* the target of an entry, the install root joined with its name and
\* normalized, is neither the install root nor beneath it
Escapes(header) == ~IsUnder(Segments(Join(<<InstallDir, header.Name>>)), RootSegs)

\* C1: an entry whose target is neither the install root nor a descendant
\* of it ends the extraction with a path-traversal error, and nothing is
\* created for it - also when the target's string starts with the root's.
C1_EscapingEntryRejected ==
    [][(/\ instPc = "extractTarball"
        /\ entryIdx' = entryIdx + 1
        /\ Escapes(tarball[entryIdx + 1]))
          => /\ fs' = fs
             /\ instPc' = "done"
             /\ instErr'.cause = "path traversal attempt"]_vars

\* what lies outside the install root is as it was when the call began
OutsideUntouched ==
    \A p \in DOMAIN fs \cup DOMAIN fsStart :
        ~IsUnder(p, RootSegs) =>
            /\ p \in DOMAIN fs
            /\ p \in DOMAIN fsStart
            /\ fs[p] = fsStart[p]

\* C2: the extractor never writes through a symbolic link it has created:
\* every file and directory written lies inside the install root.  Stated
\* for the archives whose entry names all lie inside the root, so that only
\* a link can lead outside.
C2_WritesStayInsideRoot ==
    (\A k \in 1..Len(tarball) : ~Escapes(tarball[k])) => OutsideUntouched

\* extractTarball has returned nil
Extracted == instPc = "createGoSymlink" /\ instErr = NoError

\* the last entry of the archive with the name of entry k
LastNamed(k) ==
    tarball[CHOOSE j \in k..Len(tarball) :
                /\ tarball[j].Name = tarball[k].Name
                /\ \A m \in (j + 1)..Len(tarball) : tarball[m].Name # tarball[k].Name]

\* the file at the install root joined with the name of entry k holds what
\* the header h records
HoldsContentOf(k, h) ==
    LET st == Stat(fs, Join(<<InstallDir, tarball[k].Name>>))
    IN  st.err = Nil /\ fs[st.at].kind = "file" /\ fs[st.at].data = h.Data

CarriesModeOf(k, h) ==
    LET st == Stat(fs, Join(<<InstallDir, tarball[k].Name>>))
    IN  st.err = Nil /\ fs[st.at].mode = h.Mode

\* the content half of C25 alone
FilesHoldLastContent ==
    Extracted =>
        \A k \in 1..Len(tarball) :
            tarball[k].Typeflag = "reg" => HoldsContentOf(k, LastNamed(k))

\* C25: after a successful extraction the file of every regular-file entry
\* holds exactly the content of the last entry with that name and carries
\* that entry's permission bits, also when a file was at that path before
\* the entry was processed.
C25_FilesHoldLastEntry ==
    Extracted =>
        \A k \in 1..Len(tarball) :
            tarball[k].Typeflag = "reg" =>
                /\ HoldsContentOf(k, LastNamed(k))
                /\ CarriesModeOf(k, LastNamed(k))

\* a step of extractTarball taken with the context already cancelled: the
\* call returns, and nothing is read or written
StopsWhenCancelled ==
    (instPc = "extractTarball" /\ ctxDone)
        => /\ instPc' = "done"
           /\ entryIdx' = entryIdx
           /\ fs' = fs

ReturnsCancellationOnceOpened ==
    (instPc = "extractTarball" /\ ctxDone)
        => \/ instErr'.cause = "extraction cancelled"
           \/ entryIdx = 0 /\ instErr'.cause = "failed to open tarball"

IsKind(f, r, kind) == r.err = Nil /\ f[r.at].kind = kind

\* <binDir>/go is a link and resolves to a regular file of a tree that
\* holds both entry points
EntryPointServed(f) ==
    /\ IsKind(f, Lstat(f, <<"/", "h", "/", ".", "l", "o", "c", "a", "l", "/", "b", "i", "n", "/", "g", "o">>), "link")
    /\ IsKind(f, Stat(f, <<"/", "h", "/", ".", "l", "o", "c", "a", "l", "/", "b", "i", "n", "/", "g", "o">>), "file")
    /\ IsKind(f, Stat(f, <<"/", "h", "/", ".", "l", "o", "c", "a", "l", "/", "l", "i", "b", "/", "g", "o", "/", "b", "i", "n", "/", "g", "o">>), "file")
    /\ IsKind(f, Stat(f, <<"/", "h", "/", ".", "l", "o", "c", "a", "l", "/", "l", "i", "b", "/", "g", "o", "/", "b", "i", "n", "/", "g", "o", "f", "m", "t">>), "file")

HoldsEntryPoints(archive) ==
    /\ \E k \in 1..Len(archive) : archive[k] \in {EntryGo, EntryGoAgain}
    /\ \E k \in 1..Len(archive) : archive[k] = EntryGoFmt

\* C4, as stated: starting from a complete prior installation, in every
\* state of an Install call, the final state of a failed call included,
\* <binDir>/go exists and resolves to a complete installation.
C4_ZeroDowntime ==
    (installs >= 1 /\ EntryPointServed(fsStart)) => EntryPointServed(fs)

\* C4, amended: starting from a complete prior installation, once Install
\* has returned success for an archive that holds both entry points,
\* <binDir>/go exists and resolves to a complete installation, the new one.
C4_ServedAfterSuccess ==
    (/\ installs >= 1
     /\ EntryPointServed(fsStart)
     /\ instPc = "done"
     /\ instErr = NoError
     /\ HoldsEntryPoints(tarball))
        => /\ EntryPointServed(fs)
           /\ fs[Stat(fs, <<"/", "h", "/", ".", "l", "o", "c", "a", "l", "/", "b", "i", "n", "/", "g", "o">>).at].data = "new go"

\* C4 witness: the release installed over the prior installation
C4_Witness ==
    /\ installs = 1
    /\ fsStart = PriorFs(TRUE, TRUE, TRUE)
    /\ tarball = ReleaseTarball
    /\ instPc = "done"
    /\ instErr = NoError
    /\ EntryPointServed(fs)
    /\ fs[Stat(fs, <<"/", "h", "/", ".", "l", "o", "c", "a", "l", "/", "b", "i", "n", "/", "g", "o">>).at].data = "new go"

\* the four stages of Install in their order, and the return after them
StageOf(pc) ==
    CASE pc = "ensureDirectories" -> 1
      [] pc \in {"removeExisting", "removeGoLink", "removeGoFmtLink"} -> 2
      [] pc = "extractTarball" -> 3
      [] pc \in {"createGoSymlink", "createGoFmtSymlink"} -> 4
      [] pc = "done" -> 5

StageFailure(pc) ==
    CASE StageOf(pc) = 1 -> "failed to create installation directories"
      [] StageOf(pc) = 2 -> "failed to remove existing installation"
      [] StageOf(pc) = 3 -> "extraction failed"
      [] StageOf(pc) = 4 -> "failed to create symlinks"

\* one step of Install keeps the order of the stages
StagesInOrder ==
    (instPc \in InstallStages =>
          /\ StageOf(instPc') >= StageOf(instPc)
          /\ instPc' # "done" =>
                /\ StageOf(instPc') <= StageOf(instPc) + 1
                /\ instErr' = NoError
          /\ instErr' # NoError =>
                /\ instPc' = "done"
                /\ instErr'.stage = StageFailure(instPc)
          /\ (instPc' = "done" /\ instErr' = NoError) => StageOf(instPc) = 4)

\* C15: one Install call runs ensure directories, remove existing, extract
\* archive and create symlinks in this order: it never goes back to a stage
\* or repeats one, it enters a stage only from the stage before, and that
\* without an error; an error is the error of the stage that was running
\* and Install returns with it at once; success is returned only from the
\* last stage.
C15_StagesInOrder ==
    [][StagesInOrder]_vars

\* C15 witness: the extraction has failed after the two stages before it,
\* and no link has been made
C15_Witness ==
    /\ installs = 1
    /\ instPc = "done"
    /\ instErr.stage = "extraction failed"
    /\ fsStart = BareFs
    /\ Stat(fs, InstallDir).err = Nil
    /\ Lstat(fs, GoLink).err # Nil
    /\ Lstat(fs, GoFmtLink).err # Nil


\* removeExisting has just returned nil: extractTarball is entered and has
\* read nothing yet
RemovedExisting ==
    /\ instPc = "extractTarball"
    /\ entryIdx = 0

\* C16: whichever of the prior installation directory, the go link and the
\* gofmt link existed when Install was called, none of the three exists
\* when removeExisting has returned nil.
C16_NothingLeftAfterRemoveExisting ==
    RemovedExisting =>
        /\ IsNotExist(Lstat(fs, GoDir).err)
        /\ IsNotExist(Lstat(fs, GoLink).err)
        /\ IsNotExist(Lstat(fs, GoFmtLink).err)


\* Install has returned success
Installed ==
    /\ installs >= 1
    /\ instPc = "done"
    /\ instErr = NoError

\* the object named path is a symbolic link whose text is target
LinksTo(f, path, target) ==
    /\ IsKind(f, Lstat(f, path), "link")
    /\ f[Lstat(f, path).at].data = target

\* path leads, through links, to the regular file named by target, and
\* that file holds data
Serves(f, path, target, data) ==
    /\ IsKind(f, Stat(f, path), "file")
    /\ Stat(f, path).at = Lstat(f, target).at
    /\ f[Stat(f, path).at].data = data

Holds(archive, entry) == \E k \in 1..Len(archive) : archive[k] = entry

\* C17, as stated: whenever Install has returned success, <binDir>/go and
\* <binDir>/gofmt are symbolic links and each leads to its entry-point
\* file, which exists in the newly extracted tree.
C17_LinksServeExtractedFiles ==
    Installed =>
        /\ LinksTo(fs, GoLink, GoSrc)
        /\ LinksTo(fs, GoFmtLink, GoFmtSrc)
        /\ IsKind(fs, Stat(fs, GoLink), "file")
        /\ IsKind(fs, Stat(fs, GoFmtLink), "file")

\* C17, amended: whenever Install has returned success, <binDir>/go and
\* <binDir>/gofmt are symbolic links that name <installDir>/go/bin/go and
\* <installDir>/go/bin/gofmt; each leads to the file extracted from the
\* archive when the archive holds that entry point, and to nothing when the
\* archive does not hold it.
C17_LinksNameEntryPoints ==
    Installed =>
        /\ LinksTo(fs, GoLink, GoSrc)
        /\ LinksTo(fs, GoFmtLink, GoFmtSrc)
        /\ IF Holds(tarball, EntryGo)
           THEN Serves(fs, GoLink, GoSrc, "new go")
           ELSE IsNotExist(Stat(fs, GoLink).err)
        /\ IF Holds(tarball, EntryGoFmt)
           THEN Serves(fs, GoFmtLink, GoFmtSrc, "new gofmt")
           ELSE IsNotExist(Stat(fs, GoFmtLink).err)

\* C17 witness: the release installed where nothing was installed, both
\* links leading to the extracted entry points
C17_Witness ==
    /\ Installed
    /\ installs = 1
    /\ fsStart = BareFs
    /\ tarball = ReleaseTarball
    /\ Serves(fs, GoLink, GoSrc, "new go")
    /\ Serves(fs, GoFmtLink, GoFmtSrc, "new gofmt")

\* an Install call after the first, given the release archive, has returned
\* with its context live
ReinstalledRelease ==
    /\ installs > 1
    /\ instPc = "done"
    /\ tarball = ReleaseTarball
    /\ ~ctxDone

\* C29: Install is re-runnable.  From an empty install root and bin
\* directory, after any Install calls on the same Installer, a further call
\* with the release archive and a live context succeeds: nothing an earlier
\* call left behind makes its create-symlinks stage fail.  (The other
\* stages can fail on their own: a directory that cannot be made or
\* removed, an archive that cannot be read.)
C29_InstallIsRerunnable ==
    ReinstalledRelease => instErr.stage # "failed to create symlinks"

(***************************************************************************)
(* Claims about app                                                        *)
(***************************************************************************)
\* C3: in every run Install is invoked at most once, and only after
\* Download has succeeded and VerifyChecksum has returned (true, nil); when
\* VerifyChecksum returns false, app returns an error and the install root
\* and the bin directory are as they were.
C3_InstallOnlyAfterVerification ==
    /\ installCalls <= 1
    /\ installs <= installCalls
    /\ installCalls >= 1 => (download.err = Nil /\ verified = Verdict(TRUE))
    /\ (verified.err # "not called" /\ ~verified.res) =>
          /\ appPc = "done"
          /\ appErr # Nil
          /\ installCalls = 0
          /\ fs = appFsStart

\* C3 witness: the download succeeded, the digests differ, app has returned
C3_Witness ==
    /\ appPc = "done"
    /\ download.err = Nil
    /\ verified = Verdict(FALSE)
    /\ appErr = "downloaded version could not be verified"
    /\ installCalls = 0
    /\ fs = appFsStart

\* C18: when NeedsUpdate has returned (false, nil), app has returned nil,
\* Download, VerifyChecksum and Install have not been called, nothing is
\* being fetched, and the file system is as it was when app started.
C18_NoUpdateStopsUntouched ==
    needsUpdate = Verdict(FALSE) =>
        /\ appPc = "done"
        /\ appErr = Nil
        /\ download = NotDownloaded("not called")
        /\ verified = NoResult
        /\ installCalls = 0
        /\ installs = 0
        /\ instPc = "idle"
        /\ pollPc = "idle"
        /\ output = File(<<>>, 0)
        /\ fs = appFsStart

\* C18 witness: the installed release is newer than the latest stable
\* release of the feed, on a machine with a prior installation
C18_Witness ==
    /\ needsUpdate = Verdict(FALSE)
    /\ appPc = "done"
    /\ currentVersion = VersionString(<<"10", "0", "0">>)
    /\ latestVersion = Found(VersionString(<<"2", "2", "2">>))
    /\ fs = PriorFs(TRUE, TRUE, TRUE)


\* the place of a position of app in the order of main.go:17-67
AppRank(pc) ==
    CASE pc = "getLatestVersion" -> 1
      [] pc = "needsUpdate" -> 2
      [] pc = "download" -> 3
      [] pc = "verify" -> 4
      [] pc = "newInstaller" -> 5
      [] pc = "install" -> 6
      [] pc = "installing" -> 7
      [] pc \in {"done", "panic"} -> 8

\* a stage has returned an error
Failed(out) == out.err \notin {Nil, "not called"}

\* app has returned the error msg
Aborted(msg) == appPc = "done" /\ appErr = msg

\* the stages after the one that failed have not been called
NothingAfterGetLatestVersion == needsUpdate = NoResult
NothingAfterNeedsUpdate == download = NotDownloaded("not called")
NothingAfterDownload == verified = NoResult
NothingAfterVerify == installCalls = 0 /\ installs = 0 /\ fs = appFsStart

AbortsOnError ==
    /\ Failed(latestVersion) =>
          /\ Aborted("failed to get latest version")
          /\ NothingAfterGetLatestVersion /\ NothingAfterNeedsUpdate
          /\ NothingAfterDownload /\ NothingAfterVerify
    /\ Failed(needsUpdate) =>
          /\ Aborted("failed to check if update is needed")
          /\ NothingAfterNeedsUpdate /\ NothingAfterDownload /\ NothingAfterVerify
    /\ Failed(download) =>
          /\ Aborted("failed to download latest version")
          /\ NothingAfterDownload /\ NothingAfterVerify
    /\ Failed(verified) =>
          /\ Aborted("failed to verify downloaded version")
          /\ NothingAfterVerify
    /\ (appPc # "idle" /\ instErr # NoError) =>
          /\ instPc = "done"
          /\ appPc = "installing" \/ Aborted("failed to install Go")
    /\ appErr # Nil => appPc \in {"done", "panic"}

\* one step of app: it moves forward only, a stage that has returned is
\* not called again, the polling of a stage begins only before that stage
\* has returned, and Install is called once at most
OneCallEach ==
    /\ appPc' # appPc => AppRank(appPc') > AppRank(appPc)
    /\ latestVersion.err # "not called" => latestVersion' = latestVersion
    /\ needsUpdate.err # "not called" => needsUpdate' = needsUpdate
    /\ download.err # "not called" => download' = download
    /\ verified.err # "not called" => verified' = verified
    /\ (pollPc = "idle" /\ pollPc' # "idle") =>
          /\ attempts' = 0
          /\ pollWho' = "getReleasesWithRetry" => latestVersion.err = "not called"
          /\ pollWho' = "Download" => download.err = "not called"
          /\ pollWho' = "fetchChecksum" => verified.err = "not called"
    /\ installCalls' <= 1
    /\ installs' <= installCalls'

\* C19: an error returned by GetLatestVersion, NeedsUpdate, Download,
\* VerifyChecksum or Install makes app return an error that names the
\* stage, with no later stage called; and app never calls a stage a second
\* time.
C19_ErrorAbortsPipeline ==
    []AbortsOnError /\ [][OneCallEach]_vars

\* C19 witness: the download has failed after its retries, app has
\* returned the error, and neither VerifyChecksum nor Install was called
C19_Witness ==
    /\ Aborted("failed to download latest version")
    /\ latestVersion.err = Nil
    /\ needsUpdate = Verdict(TRUE)
    /\ download = NotDownloaded("download failed with")
    /\ NothingAfterDownload
    /\ NothingAfterVerify


\* app has returned, or the process has ended in a panic
AppEnded == appPc \in {"done", "panic"}

\* C20: every run of app ends, whatever the servers answer and whenever the
\* deadline passes: no update needed, installed, or an error; no polling,
\* no extraction and no other stage goes on for ever.
C20_EveryRunEnds ==
    /\ <>AppEnded
    /\ [](appPc = "panic" => installerNil)
    /\ (pollPc # "idle") ~> (pollPc = "idle")
    /\ (instPc \in InstallStages) ~> (instPc = "done")

\* C20 witness: the deadline has passed while the checksum was being
\* fetched after a download that took its time, and app has returned
C20_Witness ==
    /\ appPc = "done"
    /\ ctxDone
    /\ download.err = Nil
    /\ appErr = "failed to verify downloaded version"
    /\ installCalls = 0

\* C30: when NewInstaller fails, app returns an error and does not invoke
\* Install: Install is never called on a nil Installer.
C30_NoInstallOnNilInstaller ==
    installerNil
        => /\ installCalls = 0
           /\ appPc # "panic"
           /\ AppEnded => appErr # Nil

(***************************************************************************)
(* Claims about the polling of Download, getReleasesWithRetry and          *)
(* fetchChecksum                                                           *)
(***************************************************************************)
\* C11: when Download returns success, the file at the returned path holds
\* exactly the bytes of the response body of the last attempt, the one that
\* succeeded, whatever the attempts before it wrote; and after every
\* attempt that went as far as the request the file holds what that attempt
\* wrote and nothing else, the offset at its end.
C11_FileIsFinalBody ==
    pollWho = "Download" =>
        /\ (pollPc = "done" /\ timeoutErr = Nil) =>
              /\ sent.kind = "ok"
              /\ Download(timeoutErr, lastSeenErr, output) = Downloaded(sent.body)
        /\ sent.kind \in {"request", "transport", "status"} => output = File(<<>>, 0)
        /\ sent.kind \in {"body", "ok"} => output = File(sent.body, Len(sent.body))

\* C11 witness: Download succeeds at its third attempt or later, after an
\* attempt that broke while the body was copied
C11_Witness ==
    /\ pollWho = "Download"
    /\ pollPc = "done"
    /\ timeoutErr = Nil
    /\ attempts >= 3
    /\ lastSeenErr = "failed to copy response body"
    /\ output.data = sent.body
    /\ Len(sent.body) = FileBits

(***************************************************************************)
(* Claims about Verify                                                     *)
(***************************************************************************)
\* C12: when the deadline passes while the subprocess has not exited, also
\* when it runs for ever and keeps its output open, Verify returns in the
\* end: it does not hang.
C12_VerifyReturnsAfterDeadline ==
    (ctxDone /\ child = "running" /\ verPc # "done") ~> (verPc = "done")

\* the attempts at which condition returns (false, err) with err not nil:
\* download_test.go:78-88, 147-150
ErrorKinds == {"seek", "truncate", "request"}

\* C22, as stated: after an attempt at which condition returned a non-nil
\* error with done = false, the polling goes on while budget remains.
C22_ErrorIsRetried ==
    (sent.kind \in ErrorKinds /\ elapsed < timeout /\ ~ctxDone) =>
        pollPc \in {"select", "condition"}

\* C22, amended: an attempt at which condition returns a non-nil error ends
\* the polling at once, with budget remaining or not: no further attempt is
\* made, PollUntilContextTimeout returns that error, and the function
\* polling returns a failure.
C22_ErrorEndsPolling ==
    sent.kind \in ErrorKinds =>
        /\ pollPc = "done"
        /\ timeoutErr \notin {Nil, DeadlineExceeded}
        /\ timeoutErr = Condition(pollWho, lastSeenErr, output, received, sent).err
        /\ pollWho = "Download" =>
              Download(timeoutErr, lastSeenErr, output).err # Nil
        /\ pollWho = "fetchChecksum" =>
              fetchChecksum(timeoutErr, received).err # Nil

\* C22 witness: the second attempt of Download cannot truncate the file,
\* three seconds after the first, and the polling has ended
C22_Witness ==
    /\ pollWho = "Download"
    /\ sent.kind = "truncate"
    /\ attempts = 2
    /\ elapsed = interval
    /\ ~ctxDone
    /\ pollPc = "done"
    /\ timeoutErr = "failed to truncate file"

\* the subprocess has exited or has been killed
ChildEnded == child \in {"exited", "killed"}

\* C31: the goroutine that waits for the exit of the subprocess always
\* ends and never blocks at its send: the channel has room whenever it is
\* at the send, once the subprocess has exited or been killed it ends, and
\* when runGoCommand has returned after starting it the subprocess has
\* exited or been killed - also when the deadline has won the race.
C31_WaiterAlwaysEnds ==
    /\ [](waiter = "send" => Len(waitCh) < WaitChCap)
    /\ [](waiter = "done" => Len(waitCh) <= WaitChCap)
    /\ [](verPc = "done" /\ waiter # "none" => ChildEnded)
    /\ (waiter # "none" /\ ChildEnded) ~> (waiter = "done")

\* C31 witness: the deadline has won the race, the subprocess was killed,
\* and the goroutine has ended with its result left in the channel
C31_Witness ==
    /\ verPc = "done"
    /\ verErr = DeadlineExceeded
    /\ child = "killed"
    /\ waiter = "done"
    /\ waitCh = <<"signal: killed">>

(***************************************************************************)
(* Claims about the response bodies                                        *)
(***************************************************************************)
\* the step in which the function polling returns to its caller
Returns(who) ==
    /\ pollWho = who
    /\ pollPc = "done"
    /\ pollPc' = "idle"

\* the step in which getReleasesWithRetry returns keeps the order of
\* polling, decoding and closing
ReleasesBodyClosedOnce ==
    Returns("getReleasesWithRetry") =>
        /\ timeoutErr = Nil =>
              /\ bodies.okGot
              /\ bodies'.okCloses = 1
        /\ timeoutErr # Nil =>
              /\ ~bodies.okGot
              /\ latestVersion' = NotFound("failed to fetch releases")

\* C21: when getReleasesWithRetry returns after a 200 response, Close has
\* been called exactly once on that response's body, whether the body
\* decoded or not; and when the polling ended without success, no body was
\* decoded.
C21_BodyClosedOnceAtReturn ==
    [][ReleasesBodyClosedOnce]_vars

\* installer.go:220-224: the error Verify returns when runGoCommand failed
\* is made of output.String() and the error of runGoCommand
VerificationFailed == [text |-> captured, cause |-> verErr]

\* C23: when the subprocess has exited with a status other than 0, the
\* error Verify returns holds the text the subprocess wrote to its standard
\* output and standard error.
C23_FailureCarriesOutput ==
    (verPc = "done" /\ verErr = "command failed") =>
        /\ childExit # 0
        /\ VerificationFailed.text = outputBytes

\* the step in which the function who returns leaves no response body open
ClosedAtReturn(who) == Returns(who) => bodies'.unclosed = 0

\* the part of C32 about Download and fetchChecksum
DownloaderBodiesClosed ==
    [][ClosedAtReturn("Download") /\ ClosedAtReturn("fetchChecksum")]_vars

AllBodiesClosedAtReturn ==
    /\ ClosedAtReturn("getReleasesWithRetry")
    /\ ClosedAtReturn("Download")
    /\ ClosedAtReturn("fetchChecksum")

\* C32: every response obtained during the polling, the non-200 answers of
\* failed attempts included, has its body closed when getReleasesWithRetry,
\* Download or fetchChecksum returns, after any number of attempts.
C32_NoBodyLeftOpen ==
    [][AllBodiesClosedAtReturn]_vars

(***************************************************************************)
(* Claims about safeClose                                                  *)
(***************************************************************************)
\* C33: safeClose called with nil does nothing - no Close is called, so
\* nothing can panic; called with a closer that is not nil it calls Close
\* on it exactly once, and the closer is closed afterwards.
C33_SafeCloseClosesOnce ==
    scCalls > 0 =>
        /\ scArg = "nil" => scBodies = scBefore
        /\ scArg # "nil" =>
              /\ scBefore.okGot
              /\ scBodies.okCloses = scBefore.okCloses + 1
              /\ scBodies.unclosed <= scBefore.unclosed
              /\ scBefore = Got(NoBodies, "ok") => scBodies.unclosed = 0

\* C33 witness: a call with nil that changed nothing, then a call with the
\* open body of the 200 response, which is closed now
C33_Witness ==
    /\ scCalls = 2
    /\ scArg = "resp.Body"
    /\ scBefore = Got(NoBodies, "ok")
    /\ scBodies = [unclosed |-> 0, okGot |-> TRUE, okCloses |-> 1]

====
